---- MODULE Spec2Model ----
(***************************************************************************)
(* knack-sleuth: usage search over a Knack application metadata snapshot.  *)
(*                                                                         *)
(* The snapshot (objects, fields, connections, scenes, views) is built     *)
(* once, indexed by KnackSlueth._build_indexes, and then queried by        *)
(* search_object / search_field, which scan it with _find_object_usages    *)
(* and _find_field_usages.                                                 *)
(*                                                                         *)
(* Conventions of the translation:                                         *)
(*   - an Optional[...] attribute holding a record is a sequence of        *)
(*     length 0 (None) or 1; an Optional[str] is the string None or a key; *)
(*   - a Python str that the code searches (an equation) is a sequence of  *)
(*     symbols, and KeyText gives the symbols of a key, so that            *)
(*     `"{key}" in text` is a real substring test;                         *)
(*   - an f-string is the tuple of its literal and interpolated parts.     *)
(***************************************************************************)
EXTENDS Naturals, Sequences, FiniteSets, TLC

VARIABLES
    app,              \* self.app: the application snapshot
    objects_by_key,   \* self.objects_by_key
    field_to_object,  \* self.field_to_object
    lastOp,           \* the method called last ("none" before any call)
    lastKey,          \* its argument
    result,           \* its return value
    memo,             \* history: the first call made and what it returned
    cwd,              \* the cache files of the working directory, by name
    now,              \* datetime.now(), in hours
    load,             \* the last call of load_app_metadata and how it ended
    exported          \* the last call of export_database_schema and how it ended

engineVars == <<app, objects_by_key, field_to_object, lastOp, lastKey, result, memo>>
loaderVars == <<cwd, now, load>>

vars == <<app, objects_by_key, field_to_object, lastOp, lastKey, result, memo,
          cwd, now, load, exported>>

None == "None"

----------------------------------------------------------------------------
(* Sequence helpers standing for Python's for-loops over lists.            *)

\* the concatenation of F(s[1]), ..., F(s[Len(s)]): a loop appending to a list
FlatMap(s, F(_)) ==
    LET R[i \in 0..Len(s)] == IF i = 0 THEN <<>> ELSE R[i - 1] \o F(s[i])
    IN  R[Len(s)]

\* the elements of s satisfying P, in order
Filter(s, P(_)) == FlatMap(s, LAMBDA x : IF P(x) THEN <<x>> ELSE <<>>)

\* `tok in text` for Python strings
Contains(text, tok) ==
    \E i \in 0..Len(text) :
        /\ i + Len(tok) <= Len(text)
        /\ SubSeq(text, i + 1, i + Len(tok)) = tok

----------------------------------------------------------------------------
(* Text of keys and the reference token of an equation.                    *)

\* the characters of a key; "field_" is kept as one symbol
KeyText(k) ==
    CASE k = "field_1"  -> <<"field_", "1">>
      [] k = "field_10" -> <<"field_", "1", "0">>
      [] k = "object_1" -> <<"object_", "1">>
      [] k = "object_2" -> <<"object_", "2">>
      [] OTHER          -> <<k>>

\* variant: the token without its closing brace, which makes {field_1 match {field_10}
TokenMissingBrace(field_key) == <<"{">> \o KeyText(field_key)

\* f"{{{field_key}}}"
Token(field_key) == <<"{">> \o KeyText(field_key) \o <<"}">>

----------------------------------------------------------------------------
(* Usage records.                                                          *)

Usage(location_type, context, details) ==
    [location_type |-> location_type, context |-> context, details |-> details]

OutboundUsage(obj, conn) ==
    Usage("connection_outbound",
          <<obj.name, obj.key, "connects to this object via", conn.name, conn.key>>,
          [source_object      |-> obj.key,
           source_object_name |-> obj.name,
           connection_field   |-> conn.key,
           connection_name    |-> conn.name,
           relationship       |-> <<conn.has, "to", conn.belongs_to>>])

\* variant: the inbound usage names the entry's object instead of the declaring one
InboundUsageNamesEntryObject(obj, conn) ==
    Usage("connection_inbound",
          <<"This object connects from", obj.name, obj.key, "via", conn.name, conn.key>>,
          [target_object      |-> conn.object,
           target_object_name |-> obj.name,
           connection_field   |-> conn.key,
           connection_name    |-> conn.name,
           relationship       |-> <<conn.has, "to", conn.belongs_to>>])

InboundUsage(obj, conn) ==
    Usage("connection_inbound",
          <<"This object connects from", obj.name, obj.key, "via", conn.name, conn.key>>,
          [target_object      |-> obj.key,
           target_object_name |-> obj.name,
           connection_field   |-> conn.key,
           connection_name    |-> conn.name,
           relationship       |-> <<conn.has, "to", conn.belongs_to>>])

ViewSourceUsage(scene, view) ==
    Usage("view_source",
          <<"View", view.name, view.key, "in scene", scene.name, scene.key,
            "displays this object">>,
          [scene_key  |-> scene.key,
           scene_name |-> scene.name,
           view_key   |-> view.key,
           view_name  |-> view.name,
           view_type  |-> view.type])

\* the details shared by the usages found in a view
ViewDetails(scene, view) ==
    [scene_key  |-> scene.key,
     scene_name |-> scene.name,
     view_key   |-> view.key,
     view_name  |-> view.name]

ViewParentSourceUsage(scene, view) ==
    Usage("view_parent_source",
          <<"View", view.name, view.key, "uses this object as parent source">>,
          ViewDetails(scene, view))

----------------------------------------------------------------------------
(* KnackSlueth._find_object_usages                                         *)

\* variant: the inbound loop runs before the outbound loop
ObjectConnectionUsagesInboundFirst(obj, object_key) ==
    IF obj.connections = <<>> THEN <<>>
    ELSE FlatMap(obj.connections[1].inbound,
                 LAMBDA conn : IF conn.object = object_key
                               THEN <<InboundUsage(obj, conn)>> ELSE <<>>)
         \o
         FlatMap(obj.connections[1].outbound,
                 LAMBDA conn : IF conn.object = object_key
                               THEN <<OutboundUsage(obj, conn)>> ELSE <<>>)

\* 1. connections of one object: the outbound loop, then the inbound loop
ObjectConnectionUsages(obj, object_key) ==
    IF obj.connections = <<>> THEN <<>>
    ELSE FlatMap(obj.connections[1].outbound,
                 LAMBDA conn : IF conn.object = object_key
                               THEN <<OutboundUsage(obj, conn)>> ELSE <<>>)
         \o
         FlatMap(obj.connections[1].inbound,
                 LAMBDA conn : IF conn.object = object_key
                               THEN <<InboundUsage(obj, conn)>> ELSE <<>>)

\* variant: the parent source is looked at only when the source did not match
ViewObjectUsagesElif(scene, view, object_key) ==
    IF view.source # <<>> /\ view.source[1].object = object_key
    THEN <<ViewSourceUsage(scene, view)>>
    ELSE IF /\ view.source # <<>>
            /\ view.source[1].parent_source # <<>>
            /\ view.source[1].parent_source[1].object = object_key
         THEN <<ViewParentSourceUsage(scene, view)>>
         ELSE <<>>

\* 2. one view: its source, then its parent source
ViewObjectUsages(scene, view, object_key) ==
    (IF view.source # <<>> /\ view.source[1].object = object_key
     THEN <<ViewSourceUsage(scene, view)>> ELSE <<>>)
    \o
    (IF /\ view.source # <<>>
        /\ view.source[1].parent_source # <<>>
        /\ view.source[1].parent_source[1].object = object_key
     THEN <<ViewParentSourceUsage(scene, view)>> ELSE <<>>)

find_object_usages(a, object_key) ==
    FlatMap(a.objects, LAMBDA obj : ObjectConnectionUsages(obj, object_key))
    \o
    FlatMap(a.scenes, LAMBDA scene :
        FlatMap(scene.views, LAMBDA view : ViewObjectUsages(scene, view, object_key)))

----------------------------------------------------------------------------
(* KnackSlueth._find_field_usages                                          *)

ConnectionFieldUsage(obj, conn) ==
    Usage("connection_field",
          <<"Connection field in", obj.name, obj.key>>,
          [object_key      |-> obj.key,
           object_name     |-> obj.name,
           target_object   |-> conn.object,
           connection_name |-> conn.name])

\* variant: the inbound list is scanned as well
ConnectionFieldUsagesBothLists(obj, field_key) ==
    IF obj.connections = <<>> THEN <<>>
    ELSE FlatMap(obj.connections[1].outbound \o obj.connections[1].inbound,
                 LAMBDA conn : IF conn.key = field_key
                               THEN <<ConnectionFieldUsage(obj, conn)>> ELSE <<>>)

\* 1. connection fields: only the outbound list of each object is scanned
ConnectionFieldUsages(obj, field_key) ==
    IF obj.connections = <<>> THEN <<>>
    ELSE FlatMap(obj.connections[1].outbound,
                 LAMBDA conn : IF conn.key = field_key
                               THEN <<ConnectionFieldUsage(obj, conn)>> ELSE <<>>)

ObjectSortUsage(obj) ==
    Usage("object_sort",
          <<"Used as sort field for", obj.name, obj.key>>,
          [object_key  |-> obj.key,
           object_name |-> obj.name,
           sort_order  |-> obj.sort[1].order])

ObjectIdentifierUsage(obj) ==
    Usage("object_identifier",
          <<"Used as identifier field for", obj.name, obj.key>>,
          [object_key  |-> obj.key,
           object_name |-> obj.name])

\* variant: the identifier is looked at only when the sort field did not match
ObjectAttributeUsagesElif(obj, field_key) ==
    IF obj.sort # <<>> /\ obj.sort[1].field = field_key
    THEN <<ObjectSortUsage(obj)>>
    ELSE IF obj.identifier = field_key
         THEN <<ObjectIdentifierUsage(obj)>>
         ELSE <<>>

\* 2. one object: its sort field, then its identifier
ObjectAttributeUsages(obj, field_key) ==
    (IF obj.sort # <<>> /\ obj.sort[1].field = field_key
     THEN <<ObjectSortUsage(obj)>> ELSE <<>>)
    \o
    (IF obj.identifier = field_key
     THEN <<ObjectIdentifierUsage(obj)>> ELSE <<>>)

\* format_dict.get("equation") of a field; <<>> stands for None and for ""
EquationOf(field) ==
    IF field.format = <<>> THEN <<>> ELSE field.format[1].equation

FieldEquationUsage(obj, field) ==
    Usage("field_equation",
          <<"Referenced in equation for", obj.name, field.name, field.key>>,
          [object_key  |-> obj.key,
           object_name |-> obj.name,
           field_key   |-> field.key,
           field_name  |-> field.name,
           equation    |-> EquationOf(field)])

\* 3. the fields of one object whose equation holds the token {field_key}
EquationUsages(obj, field_key) ==
    FlatMap(obj.fields,
            LAMBDA field :
                IF /\ EquationOf(field) # <<>>
                   /\ Contains(EquationOf(field), Token(field_key))
                THEN <<FieldEquationUsage(obj, field)>> ELSE <<>>)

ViewColumnUsage(scene, view, col) ==
    Usage("view_column",
          <<"Column in view", view.name, view.key, "in scene", scene.name>>,
          [scene_key     |-> scene.key,
           scene_name    |-> scene.name,
           view_key      |-> view.key,
           view_name     |-> view.name,
           view_type     |-> view.type,
           column_header |-> col.header])

\* 4. the columns of one view
ViewColumnUsages(scene, view, field_key) ==
    FlatMap(view.columns,
            LAMBDA col : IF col.field # <<>> /\ col.field[1].key = field_key
                         THEN <<ViewColumnUsage(scene, view, col)>> ELSE <<>>)

ViewSortUsage(scene, view, sort) ==
    Usage("view_sort",
          <<"Sort field in view", view.name, view.key>>,
          [scene_key  |-> scene.key,
           scene_name |-> scene.name,
           view_key   |-> view.key,
           view_name  |-> view.name,
           sort_order |-> sort.order])

ViewParentConnectionUsage(scene, view) ==
    Usage("view_parent_connection",
          <<"Parent connection in view", view.name, view.key>>,
          ViewDetails(scene, view))

ViewConnectionKeyUsage(scene, view) ==
    Usage("view_connection_key",
          <<"Connection key in view", view.name, view.key>>,
          ViewDetails(scene, view))

\* variant: the connection key is looked at only when the parent connection did not match
ViewSourceFieldUsagesElif(scene, view, field_key) ==
    (IF view.source # <<>>
     THEN FlatMap(view.source[1].sort,
                  LAMBDA sort : IF sort.field = field_key
                                THEN <<ViewSortUsage(scene, view, sort)>> ELSE <<>>)
     ELSE <<>>)
    \o
    (IF /\ view.source # <<>>
        /\ view.source[1].parent_source # <<>>
        /\ view.source[1].parent_source[1].connection = field_key
     THEN <<ViewParentConnectionUsage(scene, view)>>
     ELSE IF view.source # <<>> /\ view.source[1].connection_key = field_key
          THEN <<ViewConnectionKeyUsage(scene, view)>>
          ELSE <<>>)

\* 5. the source of one view: sort specs, parent connection, connection key
ViewSourceFieldUsages(scene, view, field_key) ==
    (IF view.source # <<>>
     THEN FlatMap(view.source[1].sort,
                  LAMBDA sort : IF sort.field = field_key
                                THEN <<ViewSortUsage(scene, view, sort)>> ELSE <<>>)
     ELSE <<>>)
    \o
    (IF /\ view.source # <<>>
        /\ view.source[1].parent_source # <<>>
        /\ view.source[1].parent_source[1].connection = field_key
     THEN <<ViewParentConnectionUsage(scene, view)>> ELSE <<>>)
    \o
    (IF view.source # <<>> /\ view.source[1].connection_key = field_key
     THEN <<ViewConnectionKeyUsage(scene, view)>> ELSE <<>>)

FormInputUsage(scene, view) ==
    Usage("form_input",
          <<"Input field in form", view.name, view.key>>,
          ViewDetails(scene, view))

\* 6. the inputs of one view
FormInputUsages(scene, view, field_key) ==
    FlatMap(view.inputs,
            LAMBDA input_field :
                IF input_field.is_dict /\ input_field.key = field_key
                THEN <<FormInputUsage(scene, view)>> ELSE <<>>)

\* a loop over every view of every scene
OverViews(a, F(_, _)) ==
    FlatMap(a.scenes, LAMBDA scene :
        FlatMap(scene.views, LAMBDA view : F(scene, view)))

find_field_usages(a, field_key) ==
    FlatMap(a.objects, LAMBDA obj : ConnectionFieldUsages(obj, field_key))
    \o FlatMap(a.objects, LAMBDA obj : ObjectAttributeUsages(obj, field_key))
    \o FlatMap(a.objects, LAMBDA obj : EquationUsages(obj, field_key))
    \o OverViews(a, LAMBDA scene, view : ViewColumnUsages(scene, view, field_key))
    \o OverViews(a, LAMBDA scene, view : ViewSourceFieldUsages(scene, view, field_key))
    \o OverViews(a, LAMBDA scene, view : FormInputUsages(scene, view, field_key))

----------------------------------------------------------------------------
(* KnackSlueth._build_indexes and the public queries                       *)

\* the last element of s satisfying P: what a dict built in a loop retains
Last(s, P(_)) ==
    s[CHOOSE i \in 1..Len(s) :
          /\ P(s[i])
          /\ \A j \in (i + 1)..Len(s) : ~P(s[j])]

FieldKeysOf(obj) == {obj.fields[i].key : i \in 1..Len(obj.fields)}

build_objects_by_key(a) ==
    [k \in {a.objects[i].key : i \in 1..Len(a.objects)} |->
        Last(a.objects, LAMBDA obj : obj.key = k)]

\* variant: the first object declaring a field keeps it
build_field_to_object_first_wins(a) ==
    [k \in UNION {FieldKeysOf(a.objects[i]) : i \in 1..Len(a.objects)} |->
        a.objects[CHOOSE i \in 1..Len(a.objects) :
                      /\ k \in FieldKeysOf(a.objects[i])
                      /\ \A j \in 1..(i - 1) : k \notin FieldKeysOf(a.objects[j])].key]

\* variant: only the first field of each object is indexed
build_field_to_object_first_field(a) ==
    [k \in {a.objects[i].fields[1].key :
                i \in {n \in 1..Len(a.objects) : a.objects[n].fields # <<>>}} |->
        Last(a.objects, LAMBDA obj : k \in FieldKeysOf(obj)).key]

build_field_to_object(a) ==
    [k \in UNION {FieldKeysOf(a.objects[i]) : i \in 1..Len(a.objects)} |->
        Last(a.objects, LAMBDA obj : k \in FieldKeysOf(obj)).key]

\* variant: every field of the object gets an entry, used or not
search_object_keeps_empty(a, by_key, object_key) ==
    IF object_key \notin DOMAIN by_key
    THEN [k \in {} |-> <<>>]
    ELSE LET obj == by_key[object_key]
         IN  [k \in {"object_usages"} \cup FieldKeysOf(obj) |->
                 IF k \in FieldKeysOf(obj) THEN find_field_usages(a, k)
                 ELSE find_object_usages(a, object_key)]

\* variant: "object_usages" keeps the empty list it is initialised with
search_object_without_object_usages(a, by_key, object_key) ==
    IF object_key \notin DOMAIN by_key
    THEN [k \in {} |-> <<>>]
    ELSE LET obj  == by_key[object_key]
             used == {k \in FieldKeysOf(obj) : find_field_usages(a, k) # <<>>}
         IN  [k \in {"object_usages"} \cup used |->
                 IF k \in used THEN find_field_usages(a, k) ELSE <<>>]

search_object(a, by_key, object_key) ==
    IF object_key \notin DOMAIN by_key
    THEN [k \in {} |-> <<>>]
    ELSE LET obj  == by_key[object_key]
             used == {k \in FieldKeysOf(obj) : find_field_usages(a, k) # <<>>}
         IN  [k \in {"object_usages"} \cup used |->
                 IF k \in used THEN find_field_usages(a, k)
                 ELSE find_object_usages(a, object_key)]

\* variant: no test of the field index before the scan
search_field_unguarded(a, to_object, field_key) == find_field_usages(a, field_key)

search_field(a, to_object, field_key) ==
    IF field_key \notin DOMAIN to_object
    THEN <<>>
    ELSE find_field_usages(a, field_key)

get_object_info(by_key, object_key) ==
    IF object_key \in DOMAIN by_key THEN <<by_key[object_key]>> ELSE <<>>

get_field_info(by_key, to_object, field_key) ==
    IF field_key \notin DOMAIN to_object
    THEN <<<<>>, <<>>>>
    ELSE LET obj   == by_key[to_object[field_key]]
             found == Filter(obj.fields, LAMBDA field : field.key = field_key)
         IN  <<<<obj>>, IF found = <<>> THEN <<>> ELSE <<Head(found)>>>>

----------------------------------------------------------------------------
(* The snapshots the engine is constructed on.  Keys and names come from   *)
(* fixed tables; the lists of the document vary up to the bounds below.    *)
(* One family of snapshots varies one part of the document and keeps the   *)
(* rest at a base value.                                                   *)

MaxConns  == 2    \* entries of one connection list (outbound or inbound)
MaxFields == 2    \* fields of an object whose equations vary
MaxViews  == 2    \* views of an application whose sources vary
MaxItems  == 2    \* columns, inputs or sort specs of one view

ObjectKeys == {"object_1", "object_2"}
FieldKeys  == {"field_1", "field_10"}

ObjectName(k) == IF k = "object_1" THEN "Customers" ELSE "Orders"
FieldName(k)  == IF k = "field_1" THEN "Name" ELSE "Total"

SeqsUpTo(S, n) == UNION {[1..m -> S] : m \in 0..n}

PlainField(k) == [key |-> k, name |-> FieldName(k), format |-> <<>>]

Object(k, fields, identifier, sort, connections) ==
    [key |-> k, name |-> ObjectName(k), fields |-> fields,
     identifier |-> identifier, sort |-> sort, connections |-> connections]

BaseObject(k) ==
    Object(k, <<PlainField(IF k = "object_1" THEN "field_1" ELSE "field_10")>>,
           None, <<>>, <<>>)

Application(objects, scenes) == [objects |-> objects, scenes |-> scenes]

\* --- connections ---------------------------------------------------------
Connection(k, o) ==
    [key |-> k, name |-> FieldName(k), object |-> o,
     has        |-> IF k = "field_1" THEN "one" ELSE "many",
     belongs_to |-> IF o = "object_1" THEN "many" ELSE "one"]

ConnEntries == {Connection(k, o) : k \in FieldKeys, o \in ObjectKeys}

\* short lists that accompany the list that varies
FixedConnLists ==
    {<<>>, <<Connection("field_1", "object_2")>>, <<Connection("field_10", "object_1")>>}

\* obj.connections: None, or a block in which one of the two lists varies
ConnBlocks ==
    {<<>>} \cup
    {<<[outbound |-> o, inbound |-> i]>> :
        o \in SeqsUpTo(ConnEntries, MaxConns), i \in FixedConnLists}
    \cup
    {<<[outbound |-> o, inbound |-> i]>> :
        o \in FixedConnLists, i \in SeqsUpTo(ConnEntries, MaxConns)}

FixedConnBlocks ==
    {<<>>,
     <<[outbound |-> <<Connection("field_10", "object_1")>>,
        inbound  |-> <<Connection("field_1", "object_2")>>]>>}

WithConnections(k, block) ==
    [BaseObject(k) EXCEPT !.connections = block]

ConnApps ==
    {Application(<<WithConnections("object_1", b)>>, <<>>) : b \in ConnBlocks}
    \cup
    {Application(<<WithConnections("object_1", b), WithConnections("object_2", f)>>, <<>>) :
        b \in ConnBlocks, f \in FixedConnBlocks}
    \cup
    {Application(<<WithConnections("object_1", f), WithConnections("object_2", b)>>, <<>>) :
        b \in ConnBlocks, f \in FixedConnBlocks}

\* --- identifier, sort and field ownership ---------------------------------
SortSpecs == {[field |-> k, order |-> IF k = "field_1" THEN "asc" ELSE "desc"] :
                 k \in FieldKeys}

OptionalSort == {<<>>} \cup {<<sp>> : sp \in SortSpecs}

OptionalKey == FieldKeys \cup {None}

OwnedFieldLists ==
    {<<>>, <<PlainField("field_1")>>, <<PlainField("field_10")>>,
     <<PlainField("field_1"), PlainField("field_10")>>}

AttrApps ==
    {Application(<<Object("object_1", fl, id, so, <<>>)>>, <<>>) :
        fl \in OwnedFieldLists, id \in OptionalKey, so \in OptionalSort}
    \cup
    {Application(<<Object("object_1", fl, id, so, <<>>),
                   Object("object_2", <<PlainField("field_10")>>, id2, so2, <<>>)>>, <<>>) :
        fl \in OwnedFieldLists, id \in OptionalKey, so \in OptionalSort,
        id2 \in OptionalKey, so2 \in OptionalSort}

\* --- equations -------------------------------------------------------------
EquationTexts ==
    {<<>>,
     Token("field_1"),
     Token("field_10"),
     Token("field_1") \o <<"+">> \o Token("field_1"),
     KeyText("field_1") \o <<"*", "2">>,
     Token("field_10") \o <<"-">> \o KeyText("field_10")}

Formats == {<<>>} \cup {<<[equation |-> e]>> : e \in EquationTexts}

EquationFields ==
    {[key |-> k, name |-> FieldName(k), format |-> f] : k \in FieldKeys, f \in Formats}

EquationObject2 ==
    Object("object_2",
           <<[key |-> "field_10", name |-> FieldName("field_10"),
              format |-> <<[equation |-> Token("field_1")]>>]>>,
           None, <<>>, <<>>)

EquationApps ==
    {Application(<<Object("object_1", fl, None, <<>>, <<>>)>>, <<>>) :
        fl \in SeqsUpTo(EquationFields, MaxFields)}
    \cup
    {Application(<<Object("object_1", <<f>>, None, <<>>, <<>>), EquationObject2>>, <<>>) :
        f \in EquationFields}
    \cup
    {Application(<<EquationObject2, Object("object_1", <<f>>, None, <<>>, <<>>)>>, <<>>) :
        f \in EquationFields}

\* --- scenes and views ------------------------------------------------------
ViewKeys   == <<"view_1", "view_2", "view_3", "view_4">>
ViewNames  == <<"Customer list", "Order form", "Order details", "Report">>

\* a view body is a view without key, name and type
ViewBody(source, columns, inputs) ==
    [source |-> source, columns |-> columns, inputs |-> inputs]

View(i, body) ==
    [key     |-> ViewKeys[i],
     name    |-> ViewNames[i],
     type    |-> IF body.inputs # <<>> THEN "form" ELSE "table",
     source  |-> body.source,
     columns |-> body.columns,
     inputs  |-> body.inputs]

Scene(k, views) ==
    [key |-> k, name |-> IF k = "scene_1" THEN "Home" ELSE "Admin", views |-> views]

\* the views numbered in declaration order
Views(bodies) == [i \in 1..Len(bodies) |-> View(i, bodies[i])]

\* the views in one scene, or split over two scenes
Layouts(bodies) ==
    LET vs == Views(bodies)
    IN  {<<Scene("scene_1", vs)>>}
        \cup
        {<<Scene("scene_1", SubSeq(vs, 1, n)), Scene("scene_2", SubSeq(vs, n + 1, Len(vs)))>> :
            n \in 0..(Len(vs) - 1)}

BaseObjectLists == {<<BaseObject("object_1")>>,
                    <<BaseObject("object_1"), BaseObject("object_2")>>}

Source(object, sort, parent_source, connection_key) ==
    [object |-> object, sort |-> sort, parent_source |-> parent_source,
     connection_key |-> connection_key]

ParentSource(o, k) == [object |-> o, connection |-> k]

\* sources that vary in the objects they name
ObjectSources ==
    {<<>>} \cup
    {<<Source(o, <<>>, p, None)>> :
        o \in ObjectKeys,
        p \in {<<>>, <<ParentSource("object_1", "field_1")>>,
                     <<ParentSource("object_2", "field_10")>>}}

SourceApps ==
    UNION {
        {Application(objs, sc) : objs \in BaseObjectLists, sc \in Layouts(bodies)} :
            bodies \in SeqsUpTo({ViewBody(src, <<>>, <<>>) : src \in ObjectSources}, MaxViews)}

\* sources that vary in the fields they name
FieldSources ==
    {<<Source("object_1", so, p, ck)>> :
        so \in SeqsUpTo(SortSpecs, MaxItems),
        p  \in {<<>>, <<ParentSource("object_2", "field_1")>>,
                      <<ParentSource("object_2", "field_10")>>},
        ck \in OptionalKey}

FixedBody ==
    ViewBody(<<Source("object_2", <<CHOOSE sp \in SortSpecs : sp.field = "field_1">>,
                      <<ParentSource("object_1", "field_10")>>, "field_1")>>,
             <<>>, <<>>)

FieldSourceApps ==
    UNION {
        {Application(objs, sc) :
            objs \in BaseObjectLists,
            sc \in Layouts(<<ViewBody(src, <<>>, <<>>)>>)
                   \cup Layouts(<<FixedBody, ViewBody(src, <<>>, <<>>)>>)} :
            src \in FieldSources}

\* columns: col.field is None, a dict without "key", or a dict with a key
Column(f, h) == [field |-> f, header |-> h]

Columns ==
    {Column(<<>>, "Actions"), Column(<<[key |-> None]>>, "Link")}
    \cup {Column(<<[key |-> k]>>, FieldName(k)) : k \in FieldKeys}

\* inputs: a dict with a key, a dict without one, or an element that is no dict
Inputs ==
    {[is_dict |-> TRUE, key |-> k] : k \in OptionalKey}
    \cup {[is_dict |-> FALSE, key |-> None]}

ItemBodies ==
    {ViewBody(<<>>, cols, <<>>) : cols \in SeqsUpTo(Columns, MaxItems)}
    \cup
    {ViewBody(<<>>, <<>>, ins) : ins \in SeqsUpTo(Inputs, MaxItems)}

FixedItemBody ==
    ViewBody(<<>>, <<Column(<<[key |-> "field_1"]>>, FieldName("field_1"))>>,
             <<[is_dict |-> TRUE, key |-> "field_10"]>>)

ItemApps ==
    UNION {
        {Application(objs, sc) :
            objs \in BaseObjectLists,
            sc \in Layouts(<<b>>) \cup Layouts(<<FixedItemBody, b>>)} :
            b \in ItemBodies}

\* --- connections and views together --------------------------------------
MixedConnBlocks ==
    {<<[outbound |-> <<Connection("field_1", o)>>,
        inbound  |-> <<Connection("field_10", o), Connection("field_10", o)>>]>> :
        o \in ObjectKeys}

MixedBodies ==
    {ViewBody(<<Source(o, <<>>, <<ParentSource(p, "field_1")>>, None)>>, <<>>, <<>>) :
        o \in ObjectKeys, p \in ObjectKeys}

MixedApps ==
    UNION {
        {Application(<<WithConnections("object_1", b1), WithConnections("object_2", b2)>>, sc) :
            b1 \in MixedConnBlocks, b2 \in MixedConnBlocks,
            sc \in Layouts(<<FixedBody, body>>)} :
            body \in MixedBodies}

Apps == ConnApps \cup AttrApps \cup EquationApps
        \cup SourceApps \cup FieldSourceApps \cup ItemApps \cup MixedApps

----------------------------------------------------------------------------
(* The engine: construction, then any sequence of queries.                 *)

Init ==
    /\ app \in Apps
    /\ objects_by_key = build_objects_by_key(app)
    /\ field_to_object = build_field_to_object(app)
    /\ lastOp = "none"
    /\ lastKey = None
    /\ result = <<>>
    /\ memo = <<>>
    /\ cwd = <<>>
    /\ now = 0
    /\ load = <<>>
    /\ exported = <<>>

\* variant: the list of usages lives across calls and each scan appends to it
ReturnAccumulating(op, key, r) ==
    /\ lastOp' = op
    /\ lastKey' = key
    /\ result' = IF lastOp = op /\ op \in {"find_object_usages", "find_field_usages"}
                 THEN result \o r ELSE r
    /\ UNCHANGED <<app, objects_by_key, field_to_object>>
    /\ UNCHANGED <<loaderVars, exported>>

\* variant: the field index is a defaultdict, a lookup that misses adds the key
ReturnInsertingKey(op, key, r) ==
    /\ lastOp' = op
    /\ lastKey' = key
    /\ result' = r
    /\ field_to_object' =
           IF op \in {"search_field", "get_field_info"}
           THEN [k \in DOMAIN field_to_object \cup {key} |->
                    IF k \in DOMAIN field_to_object THEN field_to_object[k] ELSE None]
           ELSE field_to_object
    /\ UNCHANGED <<app, objects_by_key>>
    /\ UNCHANGED <<loaderVars, exported>>

\* a query returns r and leaves the snapshot and the indexes alone
Return(op, key, r) ==
    /\ lastOp' = op
    /\ lastKey' = key
    /\ result' = r
    /\ UNCHANGED <<app, objects_by_key, field_to_object>>
    /\ UNCHANGED <<loaderVars, exported>>

SearchObject ==
    \E k \in ObjectKeys : Return("search_object", k, search_object(app, objects_by_key, k))

SearchField ==
    \E k \in FieldKeys : Return("search_field", k, search_field(app, field_to_object, k))

FindObjectUsages ==
    \E k \in ObjectKeys : Return("find_object_usages", k, find_object_usages(app, k))

FindFieldUsages ==
    \E k \in FieldKeys : Return("find_field_usages", k, find_field_usages(app, k))

GetObjectInfo ==
    \E k \in ObjectKeys : Return("get_object_info", k, get_object_info(objects_by_key, k))

GetFieldInfo ==
    \E k \in FieldKeys :
        Return("get_field_info", k, get_field_info(objects_by_key, field_to_object, k))

Next ==
    \/ SearchObject /\ UNCHANGED memo
    \/ SearchField /\ UNCHANGED memo
    \/ FindObjectUsages /\ UNCHANGED memo
    \/ FindFieldUsages /\ UNCHANGED memo
    \/ GetObjectInfo /\ UNCHANGED memo
    \/ GetFieldInfo /\ UNCHANGED memo

Spec == Init /\ [][Next]_vars

----------------------------------------------------------------------------
(* Repeated queries.  memo remembers the first call of a behaviour, what   *)
(* it returned, and whether a different query has been made since.         *)

IdemApps == AttrApps \cup {a \in ConnApps : Len(a.objects) = 1}

InitIdem == Init /\ app \in IdemApps

Remember ==
    memo' = IF memo = <<>>
            THEN <<[op |-> lastOp', key |-> lastKey', result |-> result',
                    interleaved |-> FALSE]>>
            ELSE <<[memo[1] EXCEPT !.interleaved =
                        @ \/ lastOp' # memo[1].op \/ lastKey' # memo[1].key]>>

NextIdem ==
    \/ SearchObject /\ Remember
    \/ SearchField /\ Remember
    \/ FindObjectUsages /\ Remember
    \/ FindFieldUsages /\ Remember
    \/ GetObjectInfo /\ Remember
    \/ GetFieldInfo /\ Remember

SpecIdem == InitIdem /\ [][NextIdem]_vars

----------------------------------------------------------------------------
(* What the document says, read off the snapshot without the scans.        *)

ObjectIndexes == 1..Len(app.objects)

DeclaredObjectKeys == {app.objects[i].key : i \in ObjectIndexes}

OwnedFieldKeys ==
    UNION {{app.objects[i].fields[j].key : j \in 1..Len(app.objects[i].fields)} :
              i \in ObjectIndexes}

\* positions <<scene, view>> of the views
ViewPositions ==
    UNION {{<<s, v>> : v \in 1..Len(app.scenes[s].views)} : s \in 1..Len(app.scenes)}

SceneAt(p) == app.scenes[p[1]]
ViewAt(p)  == app.scenes[p[1]].views[p[2]]

\* the connection lists of object i; an object without a block has none
OutboundOf(i) ==
    IF app.objects[i].connections = <<>> THEN <<>>
    ELSE app.objects[i].connections[1].outbound

InboundOf(i) ==
    IF app.objects[i].connections = <<>> THEN <<>>
    ELSE app.objects[i].connections[1].inbound

\* how many elements of the list s satisfy P
CountIn(s, P(_)) == Cardinality({n \in 1..Len(s) : P(s[n])})

IsUsageList(op) == op \in {"search_field", "find_object_usages", "find_field_usages"}

\* a usage of the given kind found in the view at position p
InView(u, kind, p) ==
    /\ u.location_type = kind
    /\ u.details.scene_key = SceneAt(p).key
    /\ u.details.view_key = ViewAt(p).key

----------------------------------------------------------------------------
(* C1: searching an object key that names no object, or a field key that   *)
(* no object owns, returns an empty result, also when the document still   *)
(* refers to that key.                                                     *)
C1_UnknownKeyEmpty ==
    /\ (lastOp = "search_object" /\ lastKey \notin DeclaredObjectKeys)
           => DOMAIN result = {}
    /\ (lastOp = "search_field" /\ lastKey \notin OwnedFieldKeys)
           => result = <<>>

\* a field key owned by no object but used as a connection key or a column
C1_Witness ==
    /\ lastOp = "search_field"
    /\ lastKey \notin OwnedFieldKeys
    /\ \/ \E i \in ObjectIndexes : \E n \in 1..Len(OutboundOf(i)) :
              OutboundOf(i)[n].key = lastKey
       \/ \E p \in ViewPositions : \E n \in 1..Len(ViewAt(p).columns) :
              /\ ViewAt(p).columns[n].field # <<>>
              /\ ViewAt(p).columns[n].field[1].key = lastKey
    /\ result = <<>>

(* C2: for an object O, search_object(O.key) has exactly the keys          *)
(* "object_usages" and the keys of O's fields that have usages, each       *)
(* mapped to the usages of that field; a field without usages and a key    *)
(* that is not a field of O are absent.                                    *)
C2_CascadeExact ==
    \A i \in ObjectIndexes :
        (lastOp = "search_object" /\ lastKey = app.objects[i].key) =>
            LET mine == FieldKeysOf(app.objects[i])
                used == {k \in mine : find_field_usages(app, k) # <<>>}
            IN  /\ DOMAIN result = {"object_usages"} \cup used
                /\ \A k \in used : result[k] = find_field_usages(app, k)
                /\ \A k \in mine \ used : k \notin DOMAIN result
                /\ \A k \in FieldKeys \ mine : k \notin DOMAIN result

\* an object with a field that has usages and a field that has none
C2_Witness ==
    /\ lastOp = "search_object"
    /\ \E i \in ObjectIndexes :
          /\ lastKey = app.objects[i].key
          /\ \E k \in FieldKeysOf(app.objects[i]) : k \in DOMAIN result
          /\ \E k \in FieldKeysOf(app.objects[i]) : k \notin DOMAIN result

(* C3 as stated: for every key passed to search_object, also one that      *)
(* names no object, the result has the entry "object_usages" and it equals *)
(* the object usages of the key.                                           *)
C3_Original ==
    lastOp = "search_object" =>
        /\ "object_usages" \in DOMAIN result
        /\ result["object_usages"] = find_object_usages(app, lastKey)

(* C3 amended: for a key that names an object the result has the entry     *)
(* "object_usages", equal to the object usages of the key; for a key that  *)
(* names no object the result is the empty mapping.                        *)
C3_ObjectUsagesEntry ==
    lastOp = "search_object" =>
        IF lastKey \in DeclaredObjectKeys
        THEN /\ "object_usages" \in DOMAIN result
             /\ result["object_usages"] = find_object_usages(app, lastKey)
        ELSE DOMAIN result = {}

\* a key that names no object although a connection entry still targets it
C3_Witness ==
    /\ lastOp = "search_object"
    /\ lastKey \notin DeclaredObjectKeys
    /\ \E i \in ObjectIndexes : \E n \in 1..Len(OutboundOf(i)) :
           OutboundOf(i)[n].object = lastKey
    /\ DOMAIN result = {}

----------------------------------------------------------------------------
(* The object usages and field usages a query has just returned.           *)

ObjectUsagesReturned ==
    \/ lastOp = "find_object_usages"
    \/ lastOp = "search_object" /\ lastKey \in DeclaredObjectKeys

ReturnedObjectUsages ==
    IF lastOp = "search_object" THEN result["object_usages"] ELSE result

\* some usage in r satisfies P
Some(r, P(_)) == \E m \in 1..Len(r) : P(r[m])

(* C5: every outbound entry of an object A that targets an existing object *)
(* B shows in the object usages of B as a connection_outbound usage naming *)
(* A as source_object and the entry's key as connection_field; every       *)
(* inbound entry of A likewise as a connection_inbound usage naming A as   *)
(* target_object.                                                          *)
C5_ConnectionSymmetry ==
    (ObjectUsagesReturned /\ lastKey \in DeclaredObjectKeys) =>
        \A i \in ObjectIndexes :
            /\ \A n \in 1..Len(OutboundOf(i)) :
                   OutboundOf(i)[n].object = lastKey =>
                       Some(ReturnedObjectUsages, LAMBDA u :
                           /\ u.location_type = "connection_outbound"
                           /\ u.details.source_object = app.objects[i].key
                           /\ u.details.connection_field = OutboundOf(i)[n].key)
            /\ \A n \in 1..Len(InboundOf(i)) :
                   InboundOf(i)[n].object = lastKey =>
                       Some(ReturnedObjectUsages, LAMBDA u :
                           /\ u.location_type = "connection_inbound"
                           /\ u.details.target_object = app.objects[i].key
                           /\ u.details.connection_field = InboundOf(i)[n].key)

\* object B is targeted by an outbound and by an inbound entry of another object A
C5_Witness ==
    /\ ObjectUsagesReturned
    /\ lastKey \in DeclaredObjectKeys
    /\ \E i \in ObjectIndexes :
          /\ app.objects[i].key # lastKey
          /\ \E n \in 1..Len(OutboundOf(i)) : OutboundOf(i)[n].object = lastKey
          /\ \E n \in 1..Len(InboundOf(i)) : InboundOf(i)[n].object = lastKey
    /\ Len(ReturnedObjectUsages) >= 2

(* C6: the object usages of k are, kind by kind, one connection_outbound   *)
(* usage per outbound entry with object = k, one connection_inbound usage  *)
(* per inbound entry with object = k, one view_source usage per view whose *)
(* source object is k, one view_parent_source usage per view whose parent  *)
(* source object is k, and nothing else.                                   *)
C6_ObjectUsagesByKind ==
    ObjectUsagesReturned =>
        LET r == ReturnedObjectUsages
            k == lastKey
        IN  /\ \A i \in ObjectIndexes :
                  /\ CountIn(r, LAMBDA u :
                         /\ u.location_type = "connection_outbound"
                         /\ u.details.source_object = app.objects[i].key)
                     = CountIn(OutboundOf(i), LAMBDA c : c.object = k)
                  /\ CountIn(r, LAMBDA u :
                         /\ u.location_type = "connection_inbound"
                         /\ u.details.target_object = app.objects[i].key)
                     = CountIn(InboundOf(i), LAMBDA c : c.object = k)
            /\ \A p \in ViewPositions :
                  /\ CountIn(r, LAMBDA u : InView(u, "view_source", p))
                     = IF ViewAt(p).source # <<>> /\ ViewAt(p).source[1].object = k
                       THEN 1 ELSE 0
                  /\ CountIn(r, LAMBDA u : InView(u, "view_parent_source", p))
                     = IF /\ ViewAt(p).source # <<>>
                          /\ ViewAt(p).source[1].parent_source # <<>>
                          /\ ViewAt(p).source[1].parent_source[1].object = k
                       THEN 1 ELSE 0
            /\ \A m \in 1..Len(r) :
                  \/ /\ r[m].location_type = "connection_outbound"
                     /\ r[m].details.source_object \in DeclaredObjectKeys
                  \/ /\ r[m].location_type = "connection_inbound"
                     /\ r[m].details.target_object \in DeclaredObjectKeys
                  \/ \E p \in ViewPositions :
                         \/ InView(r[m], "view_source", p)
                         \/ InView(r[m], "view_parent_source", p)

\* a view whose source and parent source are both k, next to a view without source
C6_Witness ==
    /\ ObjectUsagesReturned
    /\ \E p \in ViewPositions :
          /\ ViewAt(p).source # <<>>
          /\ ViewAt(p).source[1].object = lastKey
          /\ ViewAt(p).source[1].parent_source # <<>>
          /\ ViewAt(p).source[1].parent_source[1].object = lastKey
    /\ \E p \in ViewPositions : ViewAt(p).source = <<>>
    /\ Len(ReturnedObjectUsages) = 2

----------------------------------------------------------------------------
(* Field usages.                                                           *)

\* the sort specs of a view's source; a view without source has none
SourceSortOf(view) == IF view.source = <<>> THEN <<>> ELSE view.source[1].sort

ViewKinds == {"view_column", "view_sort", "view_parent_connection",
              "view_connection_key", "form_input"}

(* C7: the field usages of k hold, for every view, one view_column usage   *)
(* per column bound to k, one view_sort usage per sort spec of the source  *)
(* on k, a view_parent_connection usage if the parent source's connection  *)
(* is k, a view_connection_key usage if the source's connection key is k,  *)
(* and one form_input usage per input that references k; each carries the  *)
(* scene key and view key of its view, and a view that does not reference  *)
(* k has none.                                                             *)
C7_ViewFieldUsages ==
    lastOp = "find_field_usages" =>
        LET r == result
            k == lastKey
        IN  /\ \A p \in ViewPositions :
                  /\ CountIn(r, LAMBDA u : InView(u, "view_column", p))
                     = CountIn(ViewAt(p).columns, LAMBDA col :
                                   col.field # <<>> /\ col.field[1].key = k)
                  /\ CountIn(r, LAMBDA u : InView(u, "view_sort", p))
                     = CountIn(SourceSortOf(ViewAt(p)), LAMBDA sp : sp.field = k)
                  /\ CountIn(r, LAMBDA u : InView(u, "view_parent_connection", p))
                     = IF /\ ViewAt(p).source # <<>>
                          /\ ViewAt(p).source[1].parent_source # <<>>
                          /\ ViewAt(p).source[1].parent_source[1].connection = k
                       THEN 1 ELSE 0
                  /\ CountIn(r, LAMBDA u : InView(u, "view_connection_key", p))
                     = IF ViewAt(p).source # <<>> /\ ViewAt(p).source[1].connection_key = k
                       THEN 1 ELSE 0
                  /\ CountIn(r, LAMBDA u : InView(u, "form_input", p))
                     = CountIn(ViewAt(p).inputs, LAMBDA inp : inp.is_dict /\ inp.key = k)
            /\ \A m \in 1..Len(r) :
                  r[m].location_type \in ViewKinds =>
                      \E p \in ViewPositions : InView(r[m], r[m].location_type, p)

\* a view naming k as sort field, parent connection and connection key at once,
\* in an application with a second view
C7_Witness ==
    /\ lastOp = "find_field_usages"
    /\ \E p \in ViewPositions :
          /\ CountIn(SourceSortOf(ViewAt(p)), LAMBDA sp : sp.field = lastKey) >= 1
          /\ ViewAt(p).source[1].parent_source # <<>>
          /\ ViewAt(p).source[1].parent_source[1].connection = lastKey
          /\ ViewAt(p).source[1].connection_key = lastKey
          /\ Some(result, LAMBDA u : InView(u, "view_sort", p))
          /\ Some(result, LAMBDA u : InView(u, "view_parent_connection", p))
          /\ Some(result, LAMBDA u : InView(u, "view_connection_key", p))
    /\ Cardinality(ViewPositions) = 2

\* a column and an input of the same application bound to k
C7_WitnessItems ==
    /\ lastOp = "find_field_usages"
    /\ \E p \in ViewPositions : Some(result, LAMBDA u : InView(u, "view_column", p))
    /\ \E p \in ViewPositions : Some(result, LAMBDA u : InView(u, "form_input", p))

(* C8 as stated: the field usages of k hold a connection_field usage for   *)
(* every connection entry whose key is k, in the outbound or the inbound   *)
(* list of whichever object.                                               *)
C8_Original ==
    lastOp = "find_field_usages" =>
        \A i \in ObjectIndexes :
            \A n \in 1..Len(OutboundOf(i) \o InboundOf(i)) :
                (OutboundOf(i) \o InboundOf(i))[n].key = lastKey =>
                    Some(result, LAMBDA u :
                        /\ u.location_type = "connection_field"
                        /\ u.details.object_key = app.objects[i].key
                        /\ u.details.target_object = (OutboundOf(i) \o InboundOf(i))[n].object)

(* C8 amended: the field usages of k hold one connection_field usage per   *)
(* entry of an object's outbound list whose key is k, naming that object   *)
(* and the entry's target; entries of inbound lists add none.              *)
C8_OutboundConnectionField ==
    lastOp = "find_field_usages" =>
        \A i \in ObjectIndexes : \A o \in ObjectKeys :
            CountIn(result, LAMBDA u :
                /\ u.location_type = "connection_field"
                /\ u.details.object_key = app.objects[i].key
                /\ u.details.target_object = o)
            = CountIn(OutboundOf(i), LAMBDA c : c.key = lastKey /\ c.object = o)

\* k is the key of an outbound entry and of an inbound entry of one object
C8_Witness ==
    /\ lastOp = "find_field_usages"
    /\ \E i \in ObjectIndexes :
          /\ \E n \in 1..Len(OutboundOf(i)) : OutboundOf(i)[n].key = lastKey
          /\ \E n \in 1..Len(InboundOf(i)) : InboundOf(i)[n].key = lastKey
    /\ CountIn(result, LAMBDA u : u.location_type = "connection_field") = 1

\* the identifier and the sort field of every object show in the usages r of k
AttributesFound(r, k) ==
    \A i \in ObjectIndexes :
        /\ app.objects[i].identifier = k =>
               Some(r, LAMBDA u : /\ u.location_type = "object_identifier"
                                  /\ u.details.object_key = app.objects[i].key)
        /\ (app.objects[i].sort # <<>> /\ app.objects[i].sort[1].field = k) =>
               Some(r, LAMBDA u : /\ u.location_type = "object_sort"
                                  /\ u.details.object_key = app.objects[i].key)

(* C9 as stated: the field usages of k, as returned by search_field too,   *)
(* hold an object_identifier usage for every object whose identifier is k  *)
(* and an object_sort usage for every object whose sort field is k, also   *)
(* when k is not in the object's own field list.                           *)
C9_Original ==
    lastOp \in {"search_field", "find_field_usages"} => AttributesFound(result, lastKey)

(* C9 amended: the scan find_field_usages(k) holds an object_identifier    *)
(* usage for every object whose identifier is k and an object_sort usage   *)
(* for every object whose sort field is k, also when k is not in that      *)
(* object's field list; search_field(k) returns them provided k is in the  *)
(* field list of some object, and returns the empty list otherwise.        *)
C9_IdentifierAndSort ==
    /\ lastOp = "find_field_usages" => AttributesFound(result, lastKey)
    /\ (lastOp = "search_field" /\ lastKey \in OwnedFieldKeys)
           => AttributesFound(result, lastKey)
    /\ (lastOp = "search_field" /\ lastKey \notin OwnedFieldKeys)
           => result = <<>>

\* k is identifier and sort field of an object that does not list k, and is
\* owned by another object
C9_Witness ==
    /\ lastOp = "search_field"
    /\ lastKey \in OwnedFieldKeys
    /\ \E i \in ObjectIndexes :
          /\ app.objects[i].identifier = lastKey
          /\ app.objects[i].sort # <<>>
          /\ app.objects[i].sort[1].field = lastKey
          /\ lastKey \notin FieldKeysOf(app.objects[i])
    /\ Len(result) >= 2

\* the equation text of the field holds "{", the characters of k and "}" in a row
HasToken(field, k) ==
    /\ field.format # <<>>
    /\ LET t  == field.format[1].equation
           kt == KeyText(k)
       IN  \E p \in 1..Len(t) :
               /\ p + Len(kt) + 1 <= Len(t)
               /\ t[p] = "{"
               /\ \A q \in 1..Len(kt) : t[p + q] = kt[q]
               /\ t[p + Len(kt) + 1] = "}"

(* C10: the field usages of k hold a field_equation usage with             *)
(* details.field_key = F.key exactly for the fields F whose equation text  *)
(* holds the token {k} with both braces: one usage per such field however  *)
(* often the token occurs, none for a field that only holds {k'} with k a  *)
(* proper prefix of k'.                                                    *)
C10_EquationToken ==
    lastOp = "find_field_usages" =>
        \A i \in ObjectIndexes : \A fk \in FieldKeys :
            CountIn(result, LAMBDA u :
                /\ u.location_type = "field_equation"
                /\ u.details.object_key = app.objects[i].key
                /\ u.details.field_key = fk)
            = CountIn(app.objects[i].fields, LAMBDA f : f.key = fk /\ HasToken(f, lastKey))

\* field_1 searched where one equation is {field_10} and another {field_1}+{field_1}
C10_Witness ==
    /\ lastOp = "find_field_usages"
    /\ lastKey = "field_1"
    /\ \E i \in ObjectIndexes :
          /\ \E n \in 1..Len(app.objects[i].fields) :
                 EquationOf(app.objects[i].fields[n]) = Token("field_10")
          /\ \E n \in 1..Len(app.objects[i].fields) :
                 EquationOf(app.objects[i].fields[n])
                     = Token("field_1") \o <<"+">> \o Token("field_1")
    /\ Len(result) = 1
    /\ result[1].location_type = "field_equation"

----------------------------------------------------------------------------
(* C11: the field index is total and exact.  Its keys are exactly the      *)
(* field keys that occur in some object's field list, every key is mapped  *)
(* to the key of an object that lists that field, and the object index has *)
(* exactly the keys of the declared objects.                               *)
C11_IndexesExact ==
    /\ DOMAIN field_to_object = OwnedFieldKeys
    /\ \A k \in DOMAIN field_to_object :
           \E i \in ObjectIndexes :
               /\ app.objects[i].key = field_to_object[k]
               /\ k \in FieldKeysOf(app.objects[i])
    /\ DOMAIN objects_by_key = DeclaredObjectKeys

\* two objects, one of them with two fields, and a field key both list
C11_Witness ==
    /\ Len(app.objects) = 2
    /\ \E i \in ObjectIndexes : Cardinality(FieldKeysOf(app.objects[i])) = 2
    /\ FieldKeysOf(app.objects[1]) \cap FieldKeysOf(app.objects[2]) # {}
    /\ Cardinality(DOMAIN field_to_object) = 2
    /\ Cardinality(DOMAIN objects_by_key) = 2

----------------------------------------------------------------------------
(* C12: the queries are read-only.  No call of search_object,              *)
(* search_field, get_object_info or get_field_info (nor of the two scans)  *)
(* changes the snapshot, the object index or the field index.              *)
C12_QueriesReadOnly ==
    [][/\ app' = app
       /\ objects_by_key' = objects_by_key
       /\ field_to_object' = field_to_object]_vars

\* a lookup that missed the field index has returned, the index still exact
C12_Witness ==
    /\ lastOp = "get_field_info"
    /\ lastKey \notin DOMAIN field_to_object
    /\ DOMAIN field_to_object # {}
    /\ result = <<<<>>, <<>>>>
    /\ field_to_object = build_field_to_object(app)

----------------------------------------------------------------------------
(* C24: the list returned by _find_object_usages follows the scan, not     *)
(* sorted and not deduplicated: connection usages precede view usages;     *)
(* connection usages follow the declaration order of the objects and,      *)
(* within one object, outbound precede inbound; view usages follow scene   *)
(* then view order, view_source before view_parent_source for one view;    *)
(* every matching reference yields its own usage.                          *)
IsConnectionUsage(u) ==
    u.location_type \in {"connection_outbound", "connection_inbound"}

\* the position of the object a connection usage was found in
ObjectPosOf(u) ==
    CHOOSE i \in ObjectIndexes :
        app.objects[i].key = IF u.location_type = "connection_outbound"
                             THEN u.details.source_object
                             ELSE u.details.target_object

\* the position of the view a view usage was found in
ViewPosOf(u) ==
    CHOOSE p \in ViewPositions :
        SceneAt(p).key = u.details.scene_key /\ ViewAt(p).key = u.details.view_key

\* u may stand before w in the list
MayPrecede(u, w) ==
    IF IsConnectionUsage(u) /\ ~IsConnectionUsage(w) THEN TRUE
    ELSE IF ~IsConnectionUsage(u) /\ IsConnectionUsage(w) THEN FALSE
    ELSE IF IsConnectionUsage(u)
    THEN \/ ObjectPosOf(u) < ObjectPosOf(w)
         \/ /\ ObjectPosOf(u) = ObjectPosOf(w)
            /\ ~(u.location_type = "connection_inbound"
                    /\ w.location_type = "connection_outbound")
    ELSE \/ ViewPosOf(u)[1] < ViewPosOf(w)[1]
         \/ /\ ViewPosOf(u)[1] = ViewPosOf(w)[1]
            /\ ViewPosOf(u)[2] < ViewPosOf(w)[2]
         \/ /\ ViewPosOf(u) = ViewPosOf(w)
            /\ ~(u.location_type = "view_parent_source"
                    /\ w.location_type = "view_source")

C24_ScanOrder ==
    lastOp = "find_object_usages"
        => /\ \A i \in 1..Len(result) : \A j \in (i + 1)..Len(result) :
                  MayPrecede(result[i], result[j])
           /\ Len(result) =
                  Cardinality({<<i, n>> \in ObjectIndexes \X (1..(MaxConns + 1)) :
                      n <= Len(OutboundOf(i)) /\ OutboundOf(i)[n].object = lastKey})
                  + Cardinality({<<i, n>> \in ObjectIndexes \X (1..(MaxConns + 1)) :
                      n <= Len(InboundOf(i)) /\ InboundOf(i)[n].object = lastKey})
                  + Cardinality({p \in ViewPositions :
                      ViewAt(p).source # <<>> /\ ViewAt(p).source[1].object = lastKey})
                  + Cardinality({p \in ViewPositions :
                      /\ ViewAt(p).source # <<>>
                      /\ ViewAt(p).source[1].parent_source # <<>>
                      /\ ViewAt(p).source[1].parent_source[1].object = lastKey})

\* outbound, then twice the same inbound usage of one object, then the
\* source and the parent source of one view
C24_Witness ==
    /\ lastOp = "find_object_usages"
    /\ Len(result) >= 5
    /\ \E i \in 1..(Len(result) - 4) :
           /\ result[i].location_type = "connection_outbound"
           /\ result[i + 1].location_type = "connection_inbound"
           /\ result[i + 2] = result[i + 1]
    /\ \E i \in 1..(Len(result) - 1) :
           /\ result[i].location_type = "view_source"
           /\ result[i + 1].location_type = "view_parent_source"
           /\ result[i + 1].details.view_key = result[i].details.view_key

----------------------------------------------------------------------------
(* C30: when two objects with distinct keys both declare a field with the  *)
(* same key, the field index maps the key to the object declared last,     *)
(* get_field_info returns that object with its field, and search_object    *)
(* on either object reports the usages of the key under the key.           *)
SharedFieldKeys ==
    IF Len(app.objects) = 2 /\ app.objects[1].key # app.objects[2].key
    THEN FieldKeysOf(app.objects[1]) \cap FieldKeysOf(app.objects[2])
    ELSE {}

C30_SharedKeyLastWins ==
    /\ \A k \in SharedFieldKeys : field_to_object[k] = app.objects[2].key
    /\ (lastOp = "get_field_info" /\ lastKey \in SharedFieldKeys)
           => /\ result[1] = <<app.objects[2]>>
              /\ Len(result[2]) = 1
              /\ result[2][1].key = lastKey
              /\ \E j \in 1..Len(app.objects[2].fields) :
                     result[2][1] = app.objects[2].fields[j]
    /\ (lastOp = "search_object" /\ lastKey \in DeclaredObjectKeys)
           => \A k \in SharedFieldKeys :
                  find_field_usages(app, k) # <<>>
                      => /\ k \in DOMAIN result
                         /\ result[k] = find_field_usages(app, k)

\* the first of two objects sharing a used field key was searched
C30_Witness ==
    /\ lastOp = "search_object"
    /\ SharedFieldKeys # {}
    /\ lastKey = app.objects[1].key
    /\ field_to_object[CHOOSE k \in SharedFieldKeys : TRUE] = app.objects[2].key
    /\ \E k \in SharedFieldKeys : k \in DOMAIN result /\ result[k] # <<>>

----------------------------------------------------------------------------
(* cli.load_app_metadata: a document from a file, from a cache file of the *)
(* working directory, or from the Knack API.                               *)
(*                                                                         *)
(* A cache file is named f"{app_id}_app_metadata_{timestamp}.json"; cwd    *)
(* maps the name of each cache file to its modification time and to what   *)
(* json.load reads from it.  A document is a token: one of Documents when  *)
(* KnackAppExport on the data accepts it, Garbage when reading or validating   *)
(* it raises.  Time is counted in hours.                                   *)

FreshHours == 24

Documents == {"doc_1", "doc_2"}
Garbage   == "garbage"

\* KnackAppExport on the data does not raise
IsDocument(data) == data \in Documents

\* bool(s) of an Optional[str]
Truthy(s) == s \notin {None, ""}

CacheName(app_id, timestamp) == <<app_id, "_app_metadata_", timestamp, ".json">>

\* glob.glob(f"{final_app_id}_app_metadata_*.json")
glob(dir, final_app_id) ==
    {n \in DOMAIN dir :
        n[1] = final_app_id /\ n[2] = "_app_metadata_" /\ n[4] = ".json"}

\* variant: sorted without reverse, the least name comes first
latest_cache_ascending(names) == CHOOSE n \in names : \A m \in names : n[3] <= m[3]

\* sorted(names, reverse=True)[0]: the names differ in the timestamp only,
\* written with a fixed number of digits
latest_cache(names) == CHOOSE n \in names : \A m \in names : m[3] <= n[3]

\* how a call ends: "returned" with the document, or "exit" (typer.Exit(1))
\* after the message; requests are the app ids sent to the API, read and
\* written the cache files opened for reading and for writing, dir the
\* working directory afterwards
Loaded(document, requests, read, written, dir) ==
    [outcome |-> "returned", value |-> document, message |-> None,
     requests |-> requests, read |-> read, written |-> written, cwd |-> dir]

Failed(message, requests, read, written, dir) ==
    [outcome |-> "exit", value |-> None, message |-> message,
     requests |-> requests, read |-> read, written |-> written, cwd |-> dir]

\* the files a path can name: a valid export, a file that does not parse,
\* and no file at all
FileData(file_path) ==
    CASE file_path = "export.json" -> <<"doc_1">>
      [] file_path = "broken.json" -> <<Garbage>>
      [] OTHER                     -> <<>>

load_from_file(dir, file_path) ==
    IF FileData(file_path) = <<>>
    THEN Failed("Error: File not found", <<>>, <<>>, <<>>, dir)
    ELSE IF IsDocument(FileData(file_path)[1])
         THEN Loaded(FileData(file_path)[1], <<>>, <<>>, <<>>, dir)
         ELSE Failed("Error: Invalid JSON", <<>>, <<>>, <<>>, dir)

\* variant: a cache file of exactly 24 hours still counts as fresh
select_cache_inclusive(dir, final_app_id, refresh, clock) ==
    IF refresh \/ glob(dir, final_app_id) = {}
    THEN <<>>
    ELSE LET latest == latest_cache(glob(dir, final_app_id))
         IN  IF clock <= dir[latest].mtime + FreshHours THEN <<latest>> ELSE <<>>

\* variant: the age test is the wrong way round
select_cache_inverted(dir, final_app_id, refresh, clock) ==
    IF refresh \/ glob(dir, final_app_id) = {}
    THEN <<>>
    ELSE LET latest == latest_cache(glob(dir, final_app_id))
         IN  IF clock > dir[latest].mtime + FreshHours THEN <<latest>> ELSE <<>>

\* cached_file: the cache file to try, if any.  cache_age < timedelta(hours=24)
\* is  clock - mtime < FreshHours
select_cache(dir, final_app_id, refresh, clock) ==
    IF refresh \/ glob(dir, final_app_id) = {}
    THEN <<>>
    ELSE LET latest == latest_cache(glob(dir, final_app_id))
         IN  IF clock < dir[latest].mtime + FreshHours THEN <<latest>> ELSE <<>>

\* cache_path.open('w') and json.dump: the file gets the data and the time
WriteFile(dir, name, data, clock) ==
    [n \in DOMAIN dir \cup {name} |->
        IF n = name THEN [mtime |-> clock, data |-> data] ELSE dir[n]]

\* variant: the cache file is written as soon as the response has arrived
fetch_and_cache_early(dir, final_app_id, response, write_ok, clock, read) ==
    LET requests   == <<final_app_id>>
        cache_name == CacheName(final_app_id, clock)
    IN  CASE response = "HTTPStatusError" ->
                 Failed("Error: HTTP", requests, read, <<>>, dir)
          [] response = "RequestError" ->
                 Failed("Error: Failed to connect to Knack API", requests, read, <<>>, dir)
          [] ~write_ok ->
                 Failed("Error: Failed to parse API response", requests, read,
                        <<cache_name>>, dir)
          [] ~IsDocument(response) ->
                 Failed("Error: Failed to parse API response", requests, read,
                        <<cache_name>>, WriteFile(dir, cache_name, response, clock))
          [] OTHER ->
                 Loaded(response, requests, read, <<cache_name>>,
                        WriteFile(dir, cache_name, response, clock))

\* variant: the fetched document is returned without being cached
fetch_and_cache_unwritten(dir, final_app_id, response, write_ok, clock, read) ==
    LET requests == <<final_app_id>>
    IN  CASE response = "HTTPStatusError" ->
                 Failed("Error: HTTP", requests, read, <<>>, dir)
          [] response = "RequestError" ->
                 Failed("Error: Failed to connect to Knack API", requests, read, <<>>, dir)
          [] ~IsDocument(response) ->
                 Failed("Error: Failed to parse API response", requests, read,
                        <<>>, dir)
          [] OTHER ->
                 Loaded(response, requests, read, <<>>, dir)

\* one httpx.get; the response validated, then cached, then returned
fetch_and_cache(dir, final_app_id, response, write_ok, clock, read) ==
    LET requests   == <<final_app_id>>
        cache_name == CacheName(final_app_id, clock)
    IN  CASE response = "HTTPStatusError" ->
                 Failed("Error: HTTP", requests, read, <<>>, dir)
          [] response = "RequestError" ->
                 Failed("Error: Failed to connect to Knack API", requests, read, <<>>, dir)
          [] ~IsDocument(response) ->
                 Failed("Error: Failed to parse API response", requests, read,
                        <<>>, dir)
          [] ~write_ok ->
                 Failed("Error: Failed to parse API response", requests, read,
                        <<cache_name>>, dir)
          [] OTHER ->
                 Loaded(response, requests, read, <<cache_name>>,
                        WriteFile(dir, cache_name, response, clock))

\* app_id or settings.knack_app_id
final_app_id_of(app_id, settings_app_id) ==
    IF Truthy(app_id) THEN app_id ELSE settings_app_id

\* variant: no test of the app id before the lookup and the request
load_app_metadata_unchecked_id(dir, clock, settings_app_id, file_path, app_id, refresh, response, write_ok) ==
    IF Truthy(file_path)
    THEN load_from_file(dir, file_path)
    ELSE LET final_app_id == final_app_id_of(app_id, settings_app_id)
             cached_file  == select_cache(dir, final_app_id, refresh, clock)
         IN  IF cached_file # <<>> /\ IsDocument(dir[cached_file[1]].data)
             THEN Loaded(dir[cached_file[1]].data, <<>>, cached_file, <<>>, dir)
             ELSE fetch_and_cache(dir, final_app_id, response, write_ok,
                                  clock, cached_file)

\* variant: a cache file that cannot be loaded ends the call
load_app_metadata_cache_error_fails(dir, clock, settings_app_id, file_path, app_id, refresh, response, write_ok) ==
    IF Truthy(file_path)
    THEN load_from_file(dir, file_path)
    ELSE LET final_app_id == final_app_id_of(app_id, settings_app_id)
         IN  IF ~Truthy(final_app_id)
             THEN Failed("Error: App ID is required", <<>>, <<>>, <<>>, dir)
             ELSE LET cached_file == select_cache(dir, final_app_id, refresh, clock)
                  IN  IF cached_file = <<>>
                      THEN fetch_and_cache(dir, final_app_id, response, write_ok,
                                           clock, cached_file)
                      ELSE IF IsDocument(dir[cached_file[1]].data)
                      THEN Loaded(dir[cached_file[1]].data, <<>>, cached_file,
                                  <<>>, dir)
                      ELSE Failed("Error: Failed to load cache", <<>>, cached_file,
                                  <<>>, dir)

\* variant: refresh skips the freshness test only, the cache is still read
load_app_metadata_refresh_reads(dir, clock, settings_app_id, file_path, app_id, refresh, response, write_ok) ==
    IF Truthy(file_path)
    THEN load_from_file(dir, file_path)
    ELSE LET final_app_id == final_app_id_of(app_id, settings_app_id)
         IN  IF ~Truthy(final_app_id)
             THEN Failed("Error: App ID is required", <<>>, <<>>, <<>>, dir)
             ELSE LET names       == glob(dir, final_app_id)
                      cached_file ==
                          IF refresh /\ names # {}
                          THEN <<latest_cache(names)>>
                          ELSE select_cache(dir, final_app_id, refresh, clock)
                  IN  IF cached_file # <<>> /\ IsDocument(dir[cached_file[1]].data)
                      THEN Loaded(dir[cached_file[1]].data, <<>>, cached_file,
                                  <<>>, dir)
                      ELSE fetch_and_cache(dir, final_app_id, response, write_ok,
                                           clock, cached_file)

load_app_metadata(dir, clock, settings_app_id, file_path, app_id, refresh, response, write_ok) ==
    IF Truthy(file_path)
    THEN load_from_file(dir, file_path)
    ELSE LET final_app_id == final_app_id_of(app_id, settings_app_id)
         IN  IF ~Truthy(final_app_id)
             THEN Failed("Error: App ID is required", <<>>, <<>>, <<>>, dir)
             ELSE LET cached_file == select_cache(dir, final_app_id, refresh, clock)
                  IN  IF cached_file # <<>> /\ IsDocument(dir[cached_file[1]].data)
                      THEN Loaded(dir[cached_file[1]].data, <<>>, cached_file,
                                  <<>>, dir)
                      ELSE fetch_and_cache(dir, final_app_id, response, write_ok,
                                           clock, cached_file)

----------------------------------------------------------------------------
(* knack_sleuth.core.load_app_metadata, the library entry point: the same  *)
(* loader with a no_cache switch.  With no_cache the cache is neither      *)
(* looked up nor written; errors are raised instead of exiting.            *)

fetch_uncached(dir, final_app_id, response) ==
    LET requests == <<final_app_id>>
    IN  CASE response = "HTTPStatusError" ->
                 Failed("Error: HTTP", requests, <<>>, <<>>, dir)
          [] response = "RequestError" ->
                 Failed("Error: Failed to connect to Knack API", requests, <<>>,
                        <<>>, dir)
          [] ~IsDocument(response) ->
                 Failed("Error: Failed to parse API response", requests, <<>>,
                        <<>>, dir)
          [] OTHER ->
                 Loaded(response, requests, <<>>, <<>>, dir)

core_load_app_metadata(dir, clock, settings_app_id, app_id, refresh, no_cache, response, write_ok) ==
    IF ~no_cache
    THEN load_app_metadata(dir, clock, settings_app_id, None, app_id, refresh,
                           response, write_ok)
    ELSE LET final_app_id == final_app_id_of(app_id, settings_app_id)
         IN  IF ~Truthy(final_app_id)
             THEN Failed("Error: App ID is required", <<>>, <<>>, <<>>, dir)
             ELSE fetch_uncached(dir, final_app_id, response)

----------------------------------------------------------------------------
(* The loader and its environment: the cache files found at the start,     *)
(* the clock, the settings and what the API answers.                       *)

MaxFiles == 3    \* cache files in the working directory
MaxLate  == 1    \* hours the clock may run past the freshness window

\* the clock values looked at: the start and around the 24th hour
Times == {0, FreshHours - 1} \cup (FreshHours..(FreshHours + MaxLate))

\* what the API answers: the current document, something that does not
\* validate, an error status, no connection
Responses == {"doc_2", Garbage, "HTTPStatusError", "RequestError"}

\* app_id as given and settings.knack_app_id
AppIdInputs == {<<None, "">>, <<None, "app_2">>, <<"app_1", "app_2">>}

FilePaths == {"export.json", "broken.json", "missing.json"}

\* cache files of app_1 left by earlier runs, their names and modification
\* times independent of each other
OldNames == {CacheName("app_1", t) : t \in {0, 1}}

OldFiles == [mtime : {0, 1}, data : {"doc_1", Garbage}]

OtherAppFile == [mtime |-> 1, data |-> "doc_2"]

InitDirs ==
    LET own == UNION {[names -> OldFiles] : names \in SUBSET OldNames}
    IN  own \cup {WriteFile(d, CacheName("app_2", 1), OtherAppFile.data,
                            OtherAppFile.mtime) :
                     d \in {o \in own : Cardinality(DOMAIN o) < 2}}

NoApp == Application(<<>>, <<>>)

InitLoad ==
    /\ app = NoApp
    /\ objects_by_key = build_objects_by_key(NoApp)
    /\ field_to_object = build_field_to_object(NoApp)
    /\ lastOp = "none"
    /\ lastKey = None
    /\ result = <<>>
    /\ memo = <<>>
    /\ cwd \in InitDirs
    /\ now = 0
    /\ load = <<>>
    /\ exported = <<>>

\* the call made, the directory it found, and how it ended; the response is
\* kept when a request was made
Called(op, file_path, app_id, settings_app_id, refresh, no_cache, response, end) ==
    /\ load' = <<[op |-> op, file_path |-> file_path, app_id |-> app_id,
                  settings_app_id |-> settings_app_id, refresh |-> refresh,
                  no_cache |-> no_cache,
                  response |-> IF end.requests = <<>> THEN None ELSE response,
                  before |-> cwd, clock |-> now, end |-> end]>>
    /\ cwd' = end.cwd
    /\ UNCHANGED <<now, engineVars, exported>>

\* the command line: a file
LoadFile ==
    /\ Cardinality(DOMAIN cwd) < MaxFiles
    /\ \E file_path \in FilePaths :
           Called("cli", file_path, None, "", FALSE, FALSE, None,
                  load_app_metadata(cwd, now, "", file_path, None, FALSE,
                                    None, TRUE))

\* the command line: the cache or the API; writing the cache file can fail
\* when there is a document to write
LoadAppMetadata ==
    /\ Cardinality(DOMAIN cwd) < MaxFiles
    /\ \E ids \in AppIdInputs, refresh \in BOOLEAN,
          response \in Responses, write_ok \in BOOLEAN :
           /\ write_ok \/ IsDocument(response)
           /\ Called("cli", None, ids[1], ids[2], refresh, FALSE, response,
                     load_app_metadata(cwd, now, ids[2], None, ids[1], refresh,
                                       response, write_ok))

\* the library, without the cache and with it
CoreLoadAppMetadata ==
    /\ Cardinality(DOMAIN cwd) < MaxFiles
    /\ \E ids \in AppIdInputs, refresh \in BOOLEAN, no_cache \in BOOLEAN,
          response \in Responses, write_ok \in BOOLEAN :
           /\ no_cache \/ (~refresh /\ Truthy(ids[1]))
           /\ write_ok \/ (IsDocument(response) /\ ~no_cache)
           /\ Called("core", None, ids[1], ids[2], refresh, no_cache, response,
                     core_load_app_metadata(cwd, now, ids[2], ids[1], refresh,
                                            no_cache, response, write_ok))

\* time passes
Tick ==
    /\ \E t \in Times : t > now /\ now' = t
    /\ UNCHANGED <<cwd, load, engineVars, exported>>

NextLoad ==
    \/ LoadFile
    \/ LoadAppMetadata
    \/ CoreLoadAppMetadata
    \/ Tick

SpecLoad == InitLoad /\ [][NextLoad]_vars

----------------------------------------------------------------------------
(* What a call was about, read off the record of the call.                 *)

\* a call that goes to the cache or the API, not to a file
FromApi == load # <<>> /\ load[1].file_path = None

\* the app id the call works with
FinalAppId ==
    IF load[1].app_id \notin {None, ""} THEN load[1].app_id
    ELSE load[1].settings_app_id

HasAppId == FinalAppId # ""

\* the cache files of the app that the call found
AppCacheFiles == {n \in DOMAIN load[1].before : n[1] = FinalAppId}

\* the one with the greatest name
SelectedCacheFile ==
    CHOOSE n \in AppCacheFiles : \A m \in AppCacheFiles : m[3] <= n[3]

\* hours since the file was modified are fewer than 24
IsFresh(n) == load[1].clock < load[1].before[n].mtime + FreshHours

HoldsDocument(n) == load[1].before[n].data \in Documents

ApiCalls == Len(load[1].end.requests)

----------------------------------------------------------------------------
(* C13 as stated: with refresh off and caching on, if some cache file of   *)
(* the app is less than 24 hours old and holds a valid document, a cached  *)
(* document is returned and the API is not called.                         *)
C13_Original ==
    (/\ FromApi /\ ~load[1].refresh /\ ~load[1].no_cache /\ HasAppId
     /\ \E n \in AppCacheFiles : IsFresh(n) /\ HoldsDocument(n))
        => /\ load[1].end.outcome = "returned"
           /\ \E n \in AppCacheFiles : load[1].end.value = load[1].before[n].data
           /\ ApiCalls = 0

(* C13: with refresh off and caching on, if the cache file of the app with *)
(* the greatest name is less than 24 hours old and holds a valid document, *)
(* that document is returned and the API is not called.                    *)
C13_FreshCacheUsed ==
    (/\ FromApi /\ ~load[1].refresh /\ ~load[1].no_cache /\ HasAppId
     /\ AppCacheFiles # {}
     /\ IsFresh(SelectedCacheFile) /\ HoldsDocument(SelectedCacheFile))
        => /\ load[1].end.outcome = "returned"
           /\ load[1].end.value = load[1].before[SelectedCacheFile].data
           /\ load[1].end.read = <<SelectedCacheFile>>
           /\ ApiCalls = 0

\* a cache file of 23 hours answered the call
C13_Witness ==
    /\ FromApi /\ ~load[1].refresh /\ ~load[1].no_cache /\ HasAppId
    /\ AppCacheFiles # {}
    /\ load[1].clock = load[1].before[SelectedCacheFile].mtime + FreshHours - 1
    /\ load[1].end.outcome = "returned"
    /\ load[1].end.value = "doc_1"
    /\ ApiCalls = 0

----------------------------------------------------------------------------
(* C14: a selected cache file that is 24 hours old or older is ignored,    *)
(* the test being "strictly less than 24 hours": it is not read and the    *)
(* API is called exactly once.                                             *)
C14_StaleCacheIgnored ==
    (/\ FromApi /\ ~load[1].no_cache /\ HasAppId
     /\ AppCacheFiles # {}
     /\ ~IsFresh(SelectedCacheFile))
        => /\ load[1].end.read = <<>>
           /\ ApiCalls = 1

\* a valid cache file of exactly 24 hours was passed over
C14_Witness ==
    /\ FromApi /\ ~load[1].refresh /\ ~load[1].no_cache /\ HasAppId
    /\ AppCacheFiles # {}
    /\ load[1].clock = load[1].before[SelectedCacheFile].mtime + FreshHours
    /\ HoldsDocument(SelectedCacheFile)
    /\ load[1].end.read = <<>>
    /\ ApiCalls = 1
    /\ load[1].end.value = "doc_2"

----------------------------------------------------------------------------
(* C15: with refresh on, no cache file is read and the API is called       *)
(* exactly once, also when a valid fresh cache file exists.                *)
C15_RefreshBypassesCache ==
    (FromApi /\ load[1].refresh /\ HasAppId)
        => /\ load[1].end.read = <<>>
           /\ ApiCalls = 1

\* a refresh next to a valid cache file of less than 24 hours
C15_Witness ==
    /\ FromApi /\ load[1].refresh /\ ~load[1].no_cache /\ HasAppId
    /\ AppCacheFiles # {}
    /\ IsFresh(SelectedCacheFile) /\ HoldsDocument(SelectedCacheFile)
    /\ load[1].end.read = <<>>
    /\ ApiCalls = 1
    /\ load[1].end.outcome = "returned"

----------------------------------------------------------------------------
(* C16: load_app_metadata(app_id, no_cache=True) calls the API exactly     *)
(* once and leaves the cache files as they were, none created and none     *)
(* rewritten; with no_cache False, a fetch that brought a valid document   *)
(* tries to write the cache file of the app and of the current time.       *)
C16_NoCache ==
    /\ (FromApi /\ load[1].no_cache /\ HasAppId)
           => /\ ApiCalls = 1
              /\ load[1].end.read = <<>>
              /\ load[1].end.written = <<>>
              /\ load[1].end.cwd = load[1].before
    /\ (/\ FromApi /\ ~load[1].no_cache
        /\ ApiCalls = 1 /\ load[1].response \in Documents)
           => load[1].end.written = <<CacheName(FinalAppId, load[1].clock)>>

\* a call with no_cache next to a fresh valid cache file: the document comes
\* from the API and the directory is as before
C16_Witness ==
    /\ FromApi /\ load[1].no_cache /\ ~load[1].refresh /\ HasAppId
    /\ AppCacheFiles # {}
    /\ IsFresh(SelectedCacheFile) /\ HoldsDocument(SelectedCacheFile)
    /\ load[1].end.outcome = "returned"
    /\ load[1].end.value = "doc_2"
    /\ cwd = load[1].before

----------------------------------------------------------------------------
(* C17: without a file path, without an app id argument and with no app    *)
(* id in the settings, the call fails with the "App ID is required" error  *)
(* before any cache file is looked at, without an API call and without     *)
(* writing a file; when only the settings hold an app id, the request is   *)
(* made for that id.                                                       *)
C17_AppIdRequired ==
    /\ (FromApi /\ ~HasAppId)
           => /\ load[1].end.outcome = "exit"
              /\ load[1].end.message = "Error: App ID is required"
              /\ load[1].end.read = <<>>
              /\ ApiCalls = 0
              /\ load[1].end.written = <<>>
              /\ load[1].end.cwd = load[1].before
    /\ (/\ FromApi /\ load[1].app_id \in {None, ""}
        /\ load[1].settings_app_id # "" /\ ApiCalls > 0)
           => load[1].end.requests = <<load[1].settings_app_id>>

\* the call without any app id, made next to cache files
C17_Witness ==
    /\ FromApi /\ ~HasAppId
    /\ load[1].op = "cli"
    /\ DOMAIN load[1].before # {}
    /\ load[1].end.outcome = "exit"

----------------------------------------------------------------------------
(* C18: when the API call fails with an HTTP status error or a network     *)
(* error, or the response does not validate, the call ends in an error     *)
(* and no cache file is created: a cache file is written only after the    *)
(* fetched document has been validated.                                    *)
C18_NoCacheOnFailure ==
    /\ (/\ FromApi /\ ApiCalls > 0
        /\ load[1].response \in {"HTTPStatusError", "RequestError", Garbage})
           => /\ load[1].end.outcome = "exit"
              /\ load[1].end.written = <<>>
              /\ load[1].end.cwd = load[1].before
    /\ (FromApi /\ load[1].end.written # <<>>)
           => /\ ApiCalls = 1
              /\ load[1].response \in Documents

\* a response that does not validate, with caching on
C18_Witness ==
    /\ FromApi /\ ~load[1].no_cache
    /\ ApiCalls = 1
    /\ load[1].response = Garbage
    /\ load[1].end.outcome = "exit"
    /\ cwd = load[1].before

----------------------------------------------------------------------------
(* db_schema: export of the database structure.  A field carries its type  *)
(* and whether it is required; the JSON Schema of an object maps the keys  *)
(* of the included fields to their schemas, the text formats list them.    *)

\* variant: compact keeps identifier and connection fields only
should_include_field_without_required(field, obj, detail) ==
    CASE detail = "structural"     -> FALSE
      [] detail = "standard"       -> TRUE
      [] field.type = "connection" -> TRUE
      [] detail = "minimal"        -> FALSE
      [] detail = "compact"        -> field.key = obj.identifier
      [] OTHER                     -> TRUE

should_include_field(field, obj, detail) ==
    CASE detail = "structural"     -> FALSE
      [] detail = "standard"       -> TRUE
      [] field.type = "connection" -> TRUE
      [] detail = "minimal"        -> FALSE
      [] detail = "compact"        -> field.key = obj.identifier \/ field.required
      [] OTHER                     -> TRUE

\* type_mapping.get(field.type, "string")
get_field_json_type(field) ==
    CASE field.type = "number" -> "number"
      [] field.type = "boolean" -> "boolean"
      [] OTHER -> "string"

build_field_json_schema(field) ==
    [type |-> get_field_json_type(field), title |-> field.name,
     x_knack_type |-> field.type, x_knack_key |-> field.key,
     x_required |-> field.required]

\* the fields of obj that pass the filter, in order
IncludedFields(obj, detail) ==
    Filter(obj.fields, LAMBDA field : should_include_field(field, obj, detail))

\* obj_schema: "properties" is a dict filled in a loop, "required" the keys
\* of the included required fields
ObjectJsonSchema(obj, detail) ==
    LET included == IncludedFields(obj, detail)
        keys     == {included[i].key : i \in 1..Len(included)}
    IN  [type |-> "object", title |-> obj.name, x_knack_key |-> obj.key,
         properties |->
             [k \in keys |->
                 build_field_json_schema(Last(included, LAMBDA field : field.key = k))],
         required |-> Filter(included, LAMBDA field : field.required)]

export_to_json_schema(a, detail) ==
    [definitions |->
         [k \in {a.objects[i].key : i \in 1..Len(a.objects)} |->
             ObjectJsonSchema(Last(a.objects, LAMBDA obj : obj.key = k), detail)],
     properties |-> {a.objects[i].key : i \in 1..Len(a.objects)}]

\* export_to_dbml, export_to_yaml, export_to_mermaid: a text with one block
\* per object and one line per included field
export_to_text(a, format, detail) ==
    [format |-> format,
     blocks |-> [i \in 1..Len(a.objects) |->
                    [key    |-> a.objects[i].key,
                     fields |-> IncludedFields(a.objects[i], detail)]]]

valid_details == {"structural", "minimal", "compact", "standard"}

Returned(value) == [outcome |-> "returned", message |-> <<>>, value |-> <<value>>]

\* raise ValueError(message)
Raised(message) == [outcome |-> "raised", message |-> message, value |-> <<>>]

\* variant: the detail level is passed on unchecked
export_database_schema_unchecked_detail(a, format, detail) ==
    IF format = "json"
    THEN Returned(export_to_json_schema(a, detail))
    ELSE IF format \in {"dbml", "yaml", "mermaid"}
    THEN Returned(export_to_text(a, format, detail))
    ELSE Raised(<<"Unsupported format: ", format,
                  ". Use 'json', 'dbml', 'yaml', or 'mermaid'">>)

export_database_schema(a, format, detail) ==
    IF detail \notin valid_details
    THEN Raised(<<"Unsupported detail level: ", detail,
                  ". Use 'structural', 'minimal', 'compact', or 'standard'">>)
    ELSE IF format = "json"
    THEN Returned(export_to_json_schema(a, detail))
    ELSE IF format \in {"dbml", "yaml", "mermaid"}
    THEN Returned(export_to_text(a, format, detail))
    ELSE Raised(<<"Unsupported format: ", format,
                  ". Use 'json', 'dbml', 'yaml', or 'mermaid'">>)

----------------------------------------------------------------------------
(* The applications exported: one object whose fields vary in type and in  *)
(* being required, alone or next to a second object.  The fields of an     *)
(* object have distinct keys.                                              *)

ExportKeys == <<"field_1", "field_10", "field_2", "field_20">>

ExportField(k, type, required) ==
    [key |-> k, name |-> FieldName(k), format |-> <<>>,
     type |-> type, required |-> required]

ExportFieldLists ==
    UNION {[1..m -> {"connection", "short_text"} \X BOOLEAN] : m \in 0..MaxFields}

ExportObject(k, spec, identifier) ==
    Object(k, [j \in 1..Len(spec) |-> ExportField(ExportKeys[j], spec[j][1], spec[j][2])],
           identifier, <<>>, <<>>)

ExportObjects ==
    {ExportObject("object_1", spec, identifier) :
        spec \in ExportFieldLists, identifier \in {None, "field_1", "field_10"}}

SecondObject ==
    ExportObject("object_2", <<<<"short_text", TRUE>>, <<"connection", FALSE>>>>,
                 "field_10")

ExportApps ==
    {Application(<<o>>, <<>>) : o \in ExportObjects}
        \cup {Application(<<o, SecondObject>>, <<>>) : o \in ExportObjects}

ExportFormats == {"json", "dbml", "yaml", "mermaid", "invalid"}
ExportDetails == valid_details \cup {"invalid"}

InitExport ==
    /\ app \in ExportApps
    /\ objects_by_key = build_objects_by_key(app)
    /\ field_to_object = build_field_to_object(app)
    /\ lastOp = "none"
    /\ lastKey = None
    /\ result = <<>>
    /\ memo = <<>>
    /\ cwd = <<>>
    /\ now = 0
    /\ load = <<>>
    /\ exported = <<>>

Exported(op, format, detail, end) ==
    /\ exported' = <<[op |-> op, format |-> format, detail |-> detail, end |-> end]>>
    /\ UNCHANGED <<engineVars, loaderVars>>

ExportDatabaseSchema ==
    \E format \in ExportFormats, detail \in ExportDetails :
        Exported("export_database_schema", format, detail,
                 export_database_schema(app, format, detail))

ExportToJsonSchema ==
    \E detail \in ExportDetails :
        Exported("export_to_json_schema", "json", detail,
                 Returned(export_to_json_schema(app, detail)))

NextExport ==
    \/ ExportDatabaseSchema
    \/ ExportToJsonSchema

SpecExport == InitExport /\ [][NextExport]_vars

----------------------------------------------------------------------------
(* C19: export_database_schema raises ValueError and produces no output    *)
(* when the detail level is not one of structural, minimal, compact,       *)
(* standard ("Unsupported detail level") or, the detail level being valid, *)
(* when the format is not one of json, dbml, yaml, mermaid ("Unsupported   *)
(* format"); for every valid pair of format and detail it returns a        *)
(* result without raising.                                                 *)
C19_ExportValidation ==
    (exported # <<>> /\ exported[1].op = "export_database_schema")
        => LET call       == exported[1]
               detail_ok  == call.detail \in {"structural", "minimal", "compact", "standard"}
               format_ok  == call.format \in {"json", "dbml", "yaml", "mermaid"}
           IN  /\ ~detail_ok
                     => /\ call.end.outcome = "raised"
                        /\ call.end.message[1] = "Unsupported detail level: "
                        /\ call.end.value = <<>>
               /\ (detail_ok /\ ~format_ok)
                     => /\ call.end.outcome = "raised"
                        /\ call.end.message[1] = "Unsupported format: "
                        /\ call.end.value = <<>>
               /\ (detail_ok /\ format_ok)
                     => /\ call.end.outcome = "returned"
                        /\ call.end.value # <<>>

\* an unknown detail level asked of a valid format
C19_Witness ==
    /\ exported # <<>>
    /\ exported[1].op = "export_database_schema"
    /\ exported[1].format = "yaml"
    /\ exported[1].detail = "invalid"
    /\ exported[1].end.outcome = "raised"
    /\ Len(app.objects[1].fields) > 0

----------------------------------------------------------------------------
(* C20: in the JSON Schema export, field f of object O is in O's           *)
(* properties exactly when the detail level is standard, or minimal and f  *)
(* is a connection, or compact and f is a connection, the identifier of O  *)
(* or required; at structural no field is.  The included sets are nested:  *)
(* structural within minimal within compact within standard.               *)
ClaimedIncluded(f, O, detail) ==
    \/ detail = "standard"
    \/ detail = "minimal" /\ f.type = "connection"
    \/ detail = "compact"
          /\ (f.type = "connection" \/ f.key = O.identifier \/ f.required)

NextDetail(detail) ==
    CASE detail = "structural" -> "minimal"
      [] detail = "minimal"    -> "compact"
      [] OTHER                 -> "standard"

C20_DetailLevels ==
    (/\ exported # <<>>
     /\ exported[1].format = "json"
     /\ exported[1].detail \in {"structural", "minimal", "compact", "standard"})
        => LET detail == exported[1].detail
               schema == exported[1].end.value[1]
               wider  == export_to_json_schema(app, NextDetail(detail))
           IN  \A i \in ObjectIndexes :
                   LET O     == app.objects[i]
                       props == schema.definitions[O.key].properties
                   IN  /\ \A j \in 1..Len(O.fields) :
                              (O.fields[j].key \in DOMAIN props)
                                  <=> ClaimedIncluded(O.fields[j], O, detail)
                       /\ detail = "structural" => DOMAIN props = {}
                       /\ DOMAIN props \subseteq
                              DOMAIN wider.definitions[O.key].properties

\* a compact export that keeps a required text field and the identifier and
\* drops a plain one is not the standard one
C20_Witness ==
    /\ exported # <<>>
    /\ exported[1].format = "json"
    /\ exported[1].detail = "compact"
    /\ \E i \in ObjectIndexes :
           LET O     == app.objects[i]
               props == exported[1].end.value[1].definitions[O.key].properties
           IN  /\ \E j \in 1..Len(O.fields) :
                      /\ O.fields[j].type # "connection" /\ O.fields[j].required
                      /\ O.fields[j].key # O.identifier
                      /\ O.fields[j].key \in DOMAIN props
               /\ \E j \in 1..Len(O.fields) : O.fields[j].key \notin DOMAIN props

----------------------------------------------------------------------------
(* C28: among several cache files of one app only the one with the         *)
(* greatest name is looked at, and its modification time alone decides:    *)
(* when it is 24 hours old or older the API is called, also when another   *)
(* cache file of the app was modified less than 24 hours ago.              *)
C28_GreatestNameDecides ==
    (FromApi /\ ~load[1].no_cache /\ HasAppId /\ AppCacheFiles # {})
        => /\ \A i \in 1..Len(load[1].end.read) :
                  load[1].end.read[i] = SelectedCacheFile
           /\ ~IsFresh(SelectedCacheFile)
                  => load[1].end.read = <<>> /\ ApiCalls = 1
           /\ (IsFresh(SelectedCacheFile) /\ ~load[1].refresh)
                  => load[1].end.read = <<SelectedCacheFile>>

\* the greatest-named file is stale, a valid one with a lesser name is
\* fresh, and the API was called
C28_Witness ==
    /\ FromApi /\ ~load[1].no_cache /\ ~load[1].refresh /\ HasAppId
    /\ Cardinality(AppCacheFiles) = 2
    /\ ~IsFresh(SelectedCacheFile)
    /\ \E n \in AppCacheFiles : IsFresh(n) /\ HoldsDocument(n)
    /\ load[1].end.read = <<>>
    /\ ApiCalls = 1

----------------------------------------------------------------------------
(* C29: when the selected cache file is fresh but cannot be read or does   *)
(* not validate, the call does not fail on it: it makes exactly one API    *)
(* request and, the response being a valid document, opens the cache file  *)
(* of the current time for writing and, once written, returns the fetched  *)
(* document.                                                               *)
C29_UnreadableCacheFallsBack ==
    (/\ FromApi /\ ~load[1].refresh /\ ~load[1].no_cache /\ HasAppId
     /\ AppCacheFiles # {}
     /\ IsFresh(SelectedCacheFile) /\ ~HoldsDocument(SelectedCacheFile))
        => LET new_cache == CacheName(FinalAppId, load[1].clock)
           IN  /\ load[1].end.read = <<SelectedCacheFile>>
               /\ ApiCalls = 1
               /\ load[1].end.message # "Error: Failed to load cache"
               /\ load[1].response \in Documents
                      => /\ load[1].end.written = <<new_cache>>
                         /\ \/ /\ load[1].end.outcome = "returned"
                               /\ load[1].end.value = load[1].response
                               /\ load[1].end.cwd[new_cache] =
                                      [mtime |-> load[1].clock,
                                       data  |-> load[1].response]
                            \/ /\ load[1].end.outcome = "exit"
                               /\ load[1].end.cwd = load[1].before

\* a fresh cache file that does not parse, replaced by a fetch
C29_Witness ==
    /\ FromApi /\ ~load[1].refresh /\ ~load[1].no_cache /\ HasAppId
    /\ AppCacheFiles # {}
    /\ IsFresh(SelectedCacheFile) /\ ~HoldsDocument(SelectedCacheFile)
    /\ load[1].end.outcome = "returned"
    /\ load[1].end.value = "doc_2"
    /\ ApiCalls = 1
    /\ cwd # load[1].before

----------------------------------------------------------------------------
(* Consecutive calls of the loader in one working directory.  load keeps   *)
(* the calls made so far, the last one first; between calls time passes    *)
(* and cache files may be removed.                                         *)

MaxCalls == 2    \* calls of load_app_metadata in one behaviour

\* directories with at most one file left by earlier runs
ReloadDirs == {d \in InitDirs : Cardinality(DOMAIN d) <= 1}

ReloadIds == {<<None, "app_2">>, <<"app_1", "app_2">>}

InitReload == InitLoad /\ cwd \in ReloadDirs

Reload ==
    /\ Len(load) < MaxCalls
    /\ \E ids \in ReloadIds, refresh \in BOOLEAN, response \in Responses :
           LET end == load_app_metadata(cwd, now, ids[2], None, ids[1], refresh,
                                        response, TRUE)
           IN  /\ load' = <<[op |-> "cli", file_path |-> None, app_id |-> ids[1],
                             settings_app_id |-> ids[2], refresh |-> refresh,
                             no_cache |-> FALSE,
                             response |-> IF end.requests = <<>> THEN None
                                          ELSE response,
                             before |-> cwd, clock |-> now, end |-> end]>> \o load
               /\ cwd' = end.cwd
               /\ UNCHANGED <<now, engineVars, exported>>

\* somebody deletes a cache file between two calls
RemoveCacheFile ==
    /\ load # <<>>
    /\ Len(load) < MaxCalls
    /\ \E n \in DOMAIN cwd : cwd' = [m \in DOMAIN cwd \ {n} |-> cwd[m]]
    /\ UNCHANGED <<now, load, engineVars, exported>>

TickBetween == Len(load) < MaxCalls /\ Tick

NextReload ==
    \/ Reload
    \/ RemoveCacheFile
    \/ TickBetween

SpecReload == InitReload /\ [][NextReload]_vars

----------------------------------------------------------------------------
(* C27: after a call that fetched from the API and succeeded with caching  *)
(* on, the next call for the same app id with refresh off, made less than  *)
(* 24 hours later and with no cache file removed in between, returns the   *)
(* same document from the cache and makes no API call.                     *)
C27_Original ==
    Len(load) >= 2
        => LET last == load[1]
               prev == load[2]
           IN  (/\ ~prev.no_cache
                /\ Len(prev.end.requests) = 1
                /\ prev.end.outcome = "returned"
                /\ final_app_id_of(last.app_id, last.settings_app_id)
                       = final_app_id_of(prev.app_id, prev.settings_app_id)
                /\ ~last.refresh /\ ~last.no_cache
                /\ last.clock < prev.clock + FreshHours
                /\ DOMAIN prev.end.cwd \subseteq DOMAIN last.before)
                   => /\ last.end.outcome = "returned"
                      /\ last.end.value = prev.end.value
                      /\ last.end.requests = <<>>

----------------------------------------------------------------------------
(* The impact-analysis command (cli.py).  Python strings are compared      *)
(* through their characters: Chars is the table of the characters of the   *)
(* strings that occur, str.lower and str.startswith work on them.          *)

Chars(s) ==
    CASE s = "object_" -> <<"o", "b", "j", "e", "c", "t", "_">>
      [] s = "field_" -> <<"f", "i", "e", "l", "d", "_">>
      [] s = "object_1" -> <<"o", "b", "j", "e", "c", "t", "_", "1">>
      [] s = "OBJECT_1" -> <<"O", "B", "J", "E", "C", "T", "_", "1">>
      [] s = "object_9" -> <<"o", "b", "j", "e", "c", "t", "_", "9">>
      [] s = "field_1" -> <<"f", "i", "e", "l", "d", "_", "1">>
      [] s = "Field_10" -> <<"F", "i", "e", "l", "d", "_", "1", "0">>
      [] s = "field_9" -> <<"f", "i", "e", "l", "d", "_", "9">>
      [] s = "orders" -> <<"o", "r", "d", "e", "r", "s">>
      [] s = "TOTAL" -> <<"T", "O", "T", "A", "L">>
      [] s = "nothing" -> <<"n", "o", "t", "h", "i", "n", "g">>
      [] s = "Orders" -> <<"O", "r", "d", "e", "r", "s">>
      [] s = "Total" -> <<"T", "o", "t", "a", "l">>
      [] s = "Customers" -> <<"C", "u", "s", "t", "o", "m", "e", "r", "s">>
      [] s = "Name" -> <<"N", "a", "m", "e">>

UpperLetters == <<"A", "B", "C", "D", "E", "F", "G", "H", "I", "J", "K", "L", "M",
                  "N", "O", "P", "Q", "R", "S", "T", "U", "V", "W", "X", "Y", "Z">>

LowerLetters == <<"a", "b", "c", "d", "e", "f", "g", "h", "i", "j", "k", "l", "m",
                  "n", "o", "p", "q", "r", "s", "t", "u", "v", "w", "x", "y", "z">>

\* str.lower on one character
LowerChar(c) ==
    IF \E i \in 1..Len(UpperLetters) : UpperLetters[i] = c
    THEN LowerLetters[CHOOSE i \in 1..Len(UpperLetters) : UpperLetters[i] = c]
    ELSE c

\* s.lower()
Lower(s) == LET cs == Chars(s) IN [i \in 1..Len(cs) |-> LowerChar(cs[i])]

\* text.startswith(prefix) on characters
StartsWith(text, prefix) ==
    /\ Len(prefix) <= Len(text)
    /\ SubSeq(text, 1, Len(prefix)) = prefix

\* the objects, then the fields, whose name equals the identifier in lower case
NameMatches(a, target_identifier) ==
    [objects |-> Filter(a.objects,
                        LAMBDA obj : Lower(obj.name) = Lower(target_identifier)),
     fields  |-> FlatMap(a.objects, LAMBDA obj :
                     Filter(obj.fields,
                            LAMBDA field : Lower(field.name) = Lower(target_identifier)))]

\* variant: the field names are searched before the object names
resolve_target_fields_first(a, target_identifier) ==
    IF StartsWith(Lower(target_identifier), Chars("object_"))
    THEN [key |-> target_identifier, type |-> "object"]
    ELSE IF StartsWith(Lower(target_identifier), Chars("field_"))
    THEN [key |-> target_identifier, type |-> "field"]
    ELSE LET found == NameMatches(a, target_identifier)
         IN  IF found.fields # <<>>
             THEN [key |-> Head(found.fields).key, type |-> "field"]
             ELSE IF found.objects # <<>>
             THEN [key |-> Head(found.objects).key, type |-> "object"]
             ELSE [key |-> None, type |-> "auto"]

\* target_key and target_type after the lookup; key None when nothing matched
resolve_target(a, target_identifier) ==
    IF StartsWith(Lower(target_identifier), Chars("object_"))
    THEN [key |-> target_identifier, type |-> "object"]
    ELSE IF StartsWith(Lower(target_identifier), Chars("field_"))
    THEN [key |-> target_identifier, type |-> "field"]
    ELSE LET found == NameMatches(a, target_identifier)
         IN  IF found.objects # <<>>
             THEN [key |-> Head(found.objects).key, type |-> "object"]
             ELSE IF found.fields # <<>>
             THEN [key |-> Head(found.fields).key, type |-> "field"]
             ELSE [key |-> None, type |-> "auto"]

----------------------------------------------------------------------------
(* KnackSleuth.generate_impact_analysis, after section 4.3 of the          *)
(* specification: the usages of the target in four buckets, the counts     *)
(* and the risk level; a dict with the one entry "error" for a key that    *)
(* names no object, or no field, of the snapshot.                          *)

ConnectionImpactKinds == {"connection_outbound", "connection_inbound", "connection_field"}
ViewImpactKinds == {"view_source", "view_column", "view_sort"}

Bucket(usages, kinds) == Filter(usages, LAMBDA u : u.location_type \in kinds)

direct_impacts(usages) ==
    [connections |-> Bucket(usages, ConnectionImpactKinds),
     views       |-> Bucket(usages, ViewImpactKinds),
     forms       |-> Bucket(usages, {"form_input"}),
     formulas    |-> Bucket(usages, {"field_equation"})]

\* variant: the level follows the number of formulas alone
breaking_change_likelihood_of_formulas(direct) ==
    IF Len(direct.formulas) = 0 THEN "none" ELSE "low"

\* 0 -> none, 1..3 -> low, 4..10 -> medium, above 10 -> high
breaking_change_likelihood(direct) ==
    LET total == Len(direct.connections) + Len(direct.views)
                     + Len(direct.forms) + Len(direct.formulas)
    IN  IF total = 0 THEN "none"
        ELSE IF total <= 3 THEN "low"
        ELSE IF total <= 10 THEN "medium"
        ELSE "high"

generate_impact_analysis(a, by_key, to_object, target_key, target_type) ==
    IF target_type = "object" /\ target_key \notin DOMAIN by_key
    THEN [error |-> <<"Object", target_key, "not found">>]
    ELSE IF target_type = "field" /\ target_key \notin DOMAIN to_object
    THEN [error |-> <<"Field", target_key, "not found">>]
    ELSE LET usages == IF target_type = "object" THEN find_object_usages(a, target_key)
                       ELSE find_field_usages(a, target_key)
             direct == direct_impacts(usages)
             name   == IF target_type = "object" THEN by_key[target_key].name
                       ELSE Head(get_field_info(by_key, to_object, target_key)[2]).name
         IN  [target |-> [key |-> target_key, type |-> target_type, name |-> name],
              direct_impacts |-> direct,
              risk_assessment |->
                  [breaking_change_likelihood |-> breaking_change_likelihood(direct)],
              metadata |-> [total_direct_impacts |->
                               Len(direct.connections) + Len(direct.views)
                                   + Len(direct.forms) + Len(direct.formulas)]]

----------------------------------------------------------------------------
(* impact_analysis (cli.py), run on a metadata file already read into a.   *)

\* the lines of the markdown report that carry the target and the risk
MarkdownReport(analysis) ==
    << <<"# Impact Analysis: ", analysis.target.name>>,
       <<"**Type:** ", analysis.target.type>>,
       <<"**Key:** ", analysis.target.key>>,
       <<"## Risk Assessment">>,
       <<"- **Breaking Change Likelihood:** ",
         analysis.risk_assessment.breaking_change_likelihood>>,
       <<"### Connections (", Len(analysis.direct_impacts.connections), ")">>,
       <<"## Summary">>,
       <<"- **Total Direct Impacts:** ", analysis.metadata.total_direct_impacts>> >>

\* what the command leaves behind: exit code, resolved target, the analysis
\* when one ran, what went to the console, and the directory
CommandEnd(code, target, analysis, console, dir) ==
    [exit |-> code, target |-> target, analysis |-> analysis,
     console |-> console, cwd |-> dir]

\* variant: the error entry of the analysis is not looked at
impact_analysis_ignoring_error(a, target_identifier, output_format, output_file, dir, clock) ==
    LET by_key    == build_objects_by_key(a)
        to_object == build_field_to_object(a)
        target    == resolve_target(a, target_identifier)
    IN  IF target.key = None
        THEN CommandEnd(1, target, <<>>,
                        <<"Error: Could not find object or field", target_identifier>>, dir)
        ELSE LET analysis == generate_impact_analysis(a, by_key, to_object,
                                                      target.key, target.type)
                 output_content == <<"json", analysis>>
             IN  IF output_file # None
                 THEN CommandEnd(0, target, <<analysis>>,
                                 <<"Analysis saved to", output_file>>,
                                 WriteFile(dir, output_file, output_content, clock))
                 ELSE CommandEnd(0, target, <<analysis>>, output_content, dir)

impact_analysis(a, target_identifier, output_format, output_file, dir, clock) ==
    LET by_key    == build_objects_by_key(a)
        to_object == build_field_to_object(a)
        target    == resolve_target(a, target_identifier)
    IN  IF target.key = None
        THEN CommandEnd(1, target, <<>>,
                        <<"Error: Could not find object or field", target_identifier>>, dir)
        ELSE LET analysis == generate_impact_analysis(a, by_key, to_object,
                                                      target.key, target.type)
             IN  IF "error" \in DOMAIN analysis
                 THEN CommandEnd(1, target, <<analysis>>, <<"Error:", analysis.error>>, dir)
                 ELSE IF output_format \notin {"json", "markdown"}
                 THEN CommandEnd(1, target, <<analysis>>,
                                 <<"Error: Unknown format", output_format>>, dir)
                 ELSE LET output_content ==
                              IF output_format = "json" THEN <<"json", analysis>>
                              ELSE MarkdownReport(analysis)
                      IN  IF output_file # None
                          THEN CommandEnd(0, target, <<analysis>>,
                                          <<"Analysis saved to", output_file>>,
                                          WriteFile(dir, output_file, output_content, clock))
                          ELSE CommandEnd(0, target, <<analysis>>, output_content, dir)

----------------------------------------------------------------------------
(* The snapshots and the command lines of the impact-analysis command.     *)

MaxImpacts == 11   \* connections pointing at one object

ImpactNames == {"Orders", "orders", "Total"}

NamedObject(k, name, field_name) ==
    [BaseObject(k) EXCEPT !.name = name,
                          !.fields = <<[BaseObject(k).fields[1] EXCEPT !.name = field_name]>>]

\* two objects of one field each, the names drawn from ImpactNames
NamedApps ==
    {Application(<<NamedObject("object_1", n1, f1), NamedObject("object_2", n2, f2)>>, <<>>) :
        n1 \in ImpactNames, f1 \in ImpactNames,
        n2 \in {"Orders", "Total"}, f2 \in {"orders", "Total"}}

\* object_2 holds n connections to object_1
HubApps ==
    {Application(
        <<BaseObject("object_1"),
          WithConnections("object_2",
              <<[outbound |-> [i \in 1..n |->
                                  Connection(IF i % 2 = 1 THEN "field_10" ELSE "field_1",
                                             "object_1")],
                 inbound  |-> <<>>]>>)>>,
        <<>>) : n \in 0..MaxImpacts}

ImpactApps == NamedApps \cup HubApps

TargetIdentifiers ==
    {"object_1", "OBJECT_1", "object_9", "field_1", "Field_10", "field_9",
     "orders", "TOTAL", "nothing"}

\* --format and --output of one command line
OutputOptions ==
    {<<"json", None>>, <<"markdown", None>>, <<"markdown", "impact.md">>,
     <<"xml", "impact.md">>}

InitImpact ==
    /\ app \in ImpactApps
    /\ objects_by_key = build_objects_by_key(app)
    /\ field_to_object = build_field_to_object(app)
    /\ lastOp = "none"
    /\ lastKey = None
    /\ result = <<>>
    /\ memo = <<>>
    /\ cwd = <<>>
    /\ now = 0
    /\ load = <<>>
    /\ exported = <<>>

ImpactAnalysis ==
    \E target_identifier \in TargetIdentifiers, out \in OutputOptions :
        LET end == impact_analysis(app, target_identifier, out[1], out[2], cwd, now)
        IN  /\ lastOp' = "impact_analysis"
            /\ lastKey' = <<target_identifier, out[1], out[2]>>
            /\ result' = end
            /\ cwd' = end.cwd
            /\ UNCHANGED <<app, objects_by_key, field_to_object, memo, now, load, exported>>

NextImpact == ImpactAnalysis

SpecImpact == InitImpact /\ [][NextImpact]_vars

----------------------------------------------------------------------------
(* What the claims say about the command, in terms of the snapshot.        *)

\* the shape of each identifier of TargetIdentifiers
IdentifierShape(id) ==
    CASE id \in {"object_1", "OBJECT_1", "object_9"} -> "object key"
      [] id \in {"field_1", "Field_10", "field_9"}   -> "field key"
      [] OTHER                                       -> "name"

\* names that differ in the case of their letters only
SameName(x, y) ==
    \E class \in {{"Orders", "orders"}, {"Total", "TOTAL"}, {"nothing"}} :
        x \in class /\ y \in class

ObjectsNamed(id) == {i \in ObjectIndexes : SameName(app.objects[i].name, id)}

\* <<i, j>>: field j of object i carries the name
FieldsNamed(id) ==
    {p \in ObjectIndexes \X (1..MaxFields) :
        /\ p[2] <= Len(app.objects[p[1]].fields)
        /\ SameName(app.objects[p[1]].fields[p[2]].name, id)}

FirstField(ps) ==
    CHOOSE p \in ps : \A q \in ps : p[1] < q[1] \/ (p[1] = q[1] /\ p[2] <= q[2])

Commanded == lastOp = "impact_analysis"

\* no analysis ran, nothing but the error line was printed
EndedBeforeAnalysis ==
    /\ result.exit = 1
    /\ result.analysis = <<>>
    /\ result.console[1] = "Error: Could not find object or field"

(* C25: an identifier starting with object_ in any case is the object key, *)
(* one starting with field_ the field key; any other identifier is matched *)
(* against the names without regard to case, the objects first, then the   *)
(* fields, and the first match in declaration order gives the key; when    *)
(* no name matches the command exits with an error and runs no analysis.   *)
C25_TargetResolution ==
    Commanded =>
        LET id == lastKey[1]
        IN  CASE IdentifierShape(id) = "object key" ->
                     result.target = [key |-> id, type |-> "object"]
              [] IdentifierShape(id) = "field key" ->
                     result.target = [key |-> id, type |-> "field"]
              [] OTHER ->
                     IF ObjectsNamed(id) # {}
                     THEN LET i == CHOOSE i \in ObjectsNamed(id) :
                                       \A j \in ObjectsNamed(id) : i <= j
                          IN  result.target = [key |-> app.objects[i].key,
                                               type |-> "object"]
                     ELSE IF FieldsNamed(id) # {}
                     THEN LET p == FirstField(FieldsNamed(id))
                          IN  result.target =
                                  [key |-> app.objects[p[1]].fields[p[2]].key,
                                   type |-> "field"]
                     ELSE EndedBeforeAnalysis

\* a field declared before an object of the same name: the object is chosen
C25_Witness ==
    /\ Commanded
    /\ lastKey[1] = "orders"
    /\ app.objects[1].fields[1].name = "orders"
    /\ app.objects[1].name = "Total"
    /\ app.objects[2].name = "Orders"
    /\ result.target = [key |-> "object_2", type |-> "object"]

\* the resolved key names neither an object nor a field of the snapshot
UnknownTarget ==
    /\ result.target.key # None
    /\ result.target.key \notin DeclaredObjectKeys
    /\ result.target.key \notin OwnedFieldKeys

(* C23: for a key that names neither an object nor a field the analysis    *)
(* is a value with an "error" entry that carries a message, and the        *)
(* command exits with code 1, prints the error and no report, and writes   *)
(* no file.                                                                *)
C23_UnknownKeyError ==
    [][(Commanded' /\ UnknownTarget')
          => /\ Len(result'.analysis) = 1
             /\ "error" \in DOMAIN result'.analysis[1]
             /\ result'.analysis[1].error # <<>>
             /\ result'.exit = 1
             /\ result'.console = <<"Error:", result'.analysis[1].error>>
             /\ cwd' = cwd]_vars

\* --output given, an object key in capitals: an error and no file
C23_Witness ==
    /\ Commanded
    /\ lastKey = <<"OBJECT_1", "markdown", "impact.md">>
    /\ UnknownTarget
    /\ result.exit = 1
    /\ "error" \in DOMAIN result.analysis[1]
    /\ cwd = <<>>

----------------------------------------------------------------------------
Levels == <<"none", "low", "medium", "high">>

LevelRank(l) == CHOOSE i \in 1..Len(Levels) : Levels[i] = l

\* the analysis of object_1 in the snapshot where n connections point at it
HubAnalysis(a) ==
    generate_impact_analysis(a, build_objects_by_key(a), build_field_to_object(a),
                             "object_1", "object")

Analysed == Commanded /\ result.exit = 0

(* C21: the breaking-change likelihood of an analysis is none, low, medium *)
(* or high; of two analyses the one with more impacts has a likelihood at  *)
(* least as high; an analysis with five direct impacts or more is rated    *)
(* above none.                                                             *)
C21_RiskMonotone ==
    Analysed =>
        LET mine == result.analysis[1]
            n    == mine.metadata.total_direct_impacts
            l    == mine.risk_assessment.breaking_change_likelihood
        IN  /\ \E i \in 1..Len(Levels) : Levels[i] = l
            /\ n >= 5 => l # "none"
            /\ \A a \in HubApps :
                   LET other == HubAnalysis(a)
                       m     == other.metadata.total_direct_impacts
                       k     == other.risk_assessment.breaking_change_likelihood
                   IN  /\ m < n => LevelRank(k) <= LevelRank(l)
                       /\ n < m => LevelRank(l) <= LevelRank(k)

\* five connections point at the target: its likelihood is medium
C21_Witness ==
    /\ Analysed
    /\ lastKey[1] = "object_1"
    /\ result.analysis[1].metadata.total_direct_impacts = 5
    /\ Len(result.analysis[1].direct_impacts.connections) = 5
    /\ result.analysis[1].risk_assessment.breaking_change_likelihood = "medium"

----------------------------------------------------------------------------
(* The HTML page builder (page_builder.py).  A path is <<stem, suffix>>,   *)
(* a markdown text the sequence of its lines, an HTML text the sequence    *)
(* of its elements.                                                        *)

with_suffix(path, suffix) == <<path[1], suffix>>

\* markdown2.markdown on one line of a report
MarkdownElement(line) ==
    CASE line[1] = "# Impact Analysis: " -> <<"h1", line>>
      [] line[1] \in {"## Risk Assessment", "## Summary"} -> <<"h2", line[1]>>
      [] line[1] = "- **Breaking Change Likelihood:** " ->
             <<"li", "<strong>Breaking Change Likelihood:</strong> ", line[2]>>
      [] OTHER -> <<"p", line>>

\* the four patterns: the level after the label becomes a badge of its class
enhance_risk_badges(html_content) ==
    [i \in 1..Len(html_content) |->
        LET e == html_content[i]
        IN  IF /\ e[1] = "li"
               /\ e[2] = "<strong>Breaking Change Likelihood:</strong> "
               /\ e[3] \in {"none", "low", "medium", "high"}
            THEN <<"li", e[2], <<"span", "risk-badge", <<"risk-", e[3]>>, e[3]>> >>
            ELSE e]

\* the entries of the table of contents: the h2 headers
build_toc(html_content) ==
    FlatMap(html_content, LAMBDA e : IF e[1] = "h2" THEN << <<"toc", e[2]>> >> ELSE <<>>)

build_from_markdown(markdown_content, title, include_toc) ==
    LET html_content == enhance_risk_badges(
                            [i \in 1..Len(markdown_content) |->
                                MarkdownElement(markdown_content[i])])
    IN  [title |-> title,
         toc   |-> IF include_toc THEN build_toc(html_content) ELSE <<>>,
         body  |-> html_content]

\* the html and the directory a builder method leaves behind
Built(html, dir) == [html |-> html, cwd |-> dir]

build_from_markdown_file(dir, markdown_file, output_file, include_toc, clock) ==
    LET html == build_from_markdown(dir[markdown_file].data, markdown_file[1], include_toc)
    IN  Built(html, IF output_file # None THEN WriteFile(dir, output_file, html, clock)
                    ELSE dir)

json_to_markdown(analysis) == MarkdownReport(analysis)

\* output_file is accepted and not used
build_from_json_analysis(dir, json_file, output_file, include_toc, clock) ==
    LET analysis == dir[json_file].data
        html     == build_from_markdown(json_to_markdown(analysis),
                                        <<"Impact Analysis: ", analysis.target.name>>,
                                        include_toc)
    IN  Built(html, dir)

build_page_from_file(dir, input_file, output_file, include_toc, clock) ==
    LET out == IF output_file = None THEN with_suffix(input_file, ".html")
               ELSE output_file
    IN  IF input_file[2] = ".json"
        THEN build_from_json_analysis(dir, input_file, out, include_toc, clock)
        ELSE build_from_markdown_file(dir, input_file, out, include_toc, clock)

----------------------------------------------------------------------------
(* A directory with one markdown report and one JSON analysis, each        *)
(* written by the impact-analysis command for some target.                 *)

MarkdownFile == <<"report", ".md">>
JsonFile     == <<"analysis", ".json">>

SavedAnalyses == {HubAnalysis(a) : a \in HubApps}

PageDirs ==
    {[n \in {MarkdownFile, JsonFile} |->
         [mtime |-> 0,
          data  |-> IF n = JsonFile THEN j ELSE MarkdownReport(m)]] :
        j \in SavedAnalyses, m \in SavedAnalyses}

PageOutputs == {None, <<"page", ".html">>}

InitPage ==
    /\ cwd \in PageDirs
    /\ app = Application(<<>>, <<>>)
    /\ objects_by_key = <<>>
    /\ field_to_object = <<>>
    /\ lastOp = "none"
    /\ lastKey = None
    /\ result = <<>>
    /\ memo = <<>>
    /\ now = 0
    /\ load = <<>>
    /\ exported = <<>>

BuildPageFromFile ==
    \E input_file \in {MarkdownFile, JsonFile}, output_file \in PageOutputs,
       include_toc \in BOOLEAN :
        LET end == build_page_from_file(cwd, input_file, output_file, include_toc, now)
        IN  /\ lastOp' = "build_page_from_file"
            /\ lastKey' = <<input_file, output_file>>
            /\ result' = end.html
            /\ cwd' = end.cwd
            /\ UNCHANGED <<app, objects_by_key, field_to_object, memo, now, load, exported>>

NextPage == BuildPageFromFile

SpecPage == InitPage /\ [][NextPage]_vars

(* C26: after build_page_from_file the file named by output_file, or the   *)
(* input path with the suffix .html when output_file is omitted, holds     *)
(* the HTML that the call returned, for a .json input as for a markdown    *)
(* input.                                                                  *)
C26_Original ==
    lastOp = "build_page_from_file" =>
        LET out == IF lastKey[2] = None THEN <<lastKey[1][1], ".html">> ELSE lastKey[2]
        IN  /\ out \in DOMAIN cwd
            /\ cwd[out].data = result

----------------------------------------------------------------------------
(* KnackSleuth.generate_app_summary, calculation complexity, after section *)
(* 4.4 and section 7 of the specification: the formula fields, and the     *)
(* depth of the longest chain of {field_key} references among them, found  *)
(* by a depth-first walk that does not enter a field already on its path.  *)
(* The walk is taken one step at a time: memo is its stack, innermost      *)
(* frame first, result its roots still to visit and the maximum so far.    *)

MaxChain == 3   \* frames the stack of the walk can hold

AllFields(a) == FlatMap(a.objects, LAMBDA obj : obj.fields)

FormulaFields(a) == Filter(AllFields(a), LAMBDA field : EquationOf(field) # <<>>)

\* the formula fields whose token occurs in the equation of field
ReferencedFields(a, field) ==
    Filter(FormulaFields(a),
           LAMBDA other : Contains(EquationOf(field), Token(other.key)))

Frame(a, field) == [key |-> field.key, refs |-> ReferencedFields(a, field), best |-> 0]

\* variant: no field counts as visited
VisitedNever(key, stack) == FALSE

\* the visited set: the keys of the fields on the path
Visited(key, stack) == \E i \in 1..Len(stack) : stack[i].key = key

Deeper(x, y) == IF x < y THEN y ELSE x

Walking == lastOp = "generate_app_summary"

InitSummary ==
    /\ app \in EquationApps
    /\ objects_by_key = build_objects_by_key(app)
    /\ field_to_object = build_field_to_object(app)
    /\ lastOp = "none"
    /\ lastKey = None
    /\ result = <<>>
    /\ memo = <<>>
    /\ cwd = <<>>
    /\ now = 0
    /\ load = <<>>
    /\ exported = <<>>

Walk(op, stack, roots, max) ==
    /\ lastOp' = op
    /\ memo' = stack
    /\ result' = [roots |-> roots, max |-> max]
    /\ UNCHANGED <<app, objects_by_key, field_to_object, lastKey, loaderVars, exported>>

\* sleuth.generate_app_summary() is called
StartSummary ==
    /\ lastOp = "none"
    /\ Walk("generate_app_summary", <<>>, FormulaFields(app), 0)

\* the walk starts at the next formula field
VisitRoot ==
    /\ Walking /\ memo = <<>> /\ result.roots # <<>>
    /\ Walk(lastOp, <<Frame(app, Head(result.roots))>>, Tail(result.roots), result.max)

\* the next reference of the innermost field: entered unless on the path
Descend ==
    /\ Walking /\ memo # <<>> /\ Head(memo).refs # <<>>
    /\ Len(memo) < MaxChain
    /\ LET top  == Head(memo)
           ref  == Head(top.refs)
           rest == <<[top EXCEPT !.refs = Tail(top.refs)]>> \o Tail(memo)
       IN  Walk(lastOp,
                IF Visited(ref.key, memo) THEN rest ELSE <<Frame(app, ref)>> \o rest,
                result.roots, result.max)

\* the innermost field is done: its depth goes to the field that referred to it
Ascend ==
    /\ Walking /\ memo # <<>> /\ Head(memo).refs = <<>>
    /\ LET depth == Head(memo).best + 1
           outer == Tail(memo)
       IN  IF outer = <<>>
           THEN Walk(lastOp, <<>>, result.roots, Deeper(result.max, depth))
           ELSE Walk(lastOp,
                     <<[Head(outer) EXCEPT !.best = Deeper(Head(outer).best, depth)]>>
                         \o Tail(outer),
                     result.roots, result.max)

\* the summary returns to app_summary (cli.py), which goes on to print it
FinishSummary ==
    /\ Walking /\ memo = <<>> /\ result.roots = <<>>
    /\ lastOp' = "app_summary"
    /\ result' = [total_formula_fields |-> Len(FormulaFields(app)),
                  objects_with_formulas |->
                      Len(Filter(app.objects, LAMBDA obj :
                              \E i \in 1..Len(obj.fields) : EquationOf(obj.fields[i]) # <<>>)),
                  max_formula_chain_depth |-> result.max]
    /\ UNCHANGED <<app, objects_by_key, field_to_object, lastKey, memo, loaderVars, exported>>

NextSummary ==
    \/ StartSummary
    \/ VisitRoot
    \/ Descend
    \/ Ascend
    \/ FinishSummary

\* the interpreter keeps running the call until it returns
SpecSummary == InitSummary /\ [][NextSummary]_vars /\ WF_vars(NextSummary)

\* some field's equation holds its own token
SelfReference ==
    \E i \in 1..Len(AllFields(app)) :
        Contains(EquationOf(AllFields(app)[i]), Token(AllFields(app)[i].key))

\* two fields with different keys, each holding the token of the other
TwoCycle ==
    \E i, j \in 1..Len(AllFields(app)) :
        /\ AllFields(app)[i].key # AllFields(app)[j].key
        /\ Contains(EquationOf(AllFields(app)[i]), Token(AllFields(app)[j].key))
        /\ Contains(EquationOf(AllFields(app)[j]), Token(AllFields(app)[i].key))

(* C22: on every snapshot, with self-referencing equations and with two    *)
(* fields referencing each other included, generate_app_summary returns,   *)
(* and the max formula chain depth it reports is a number no greater than  *)
(* the number of field keys.                                               *)
C22_SummaryTerminates ==
    <>(/\ lastOp = "app_summary"
       /\ result.max_formula_chain_depth \in 0..Cardinality(FieldKeys))

\* the summary of a snapshot with a 2-cycle: depth 2
C22_Witness ==
    /\ lastOp = "app_summary"
    /\ TwoCycle
    /\ result.max_formula_chain_depth = 2

\* the summary of a snapshot with a self-reference and no other formula
C22_WitnessSelf ==
    /\ lastOp = "app_summary"
    /\ SelfReference
    /\ result.total_formula_fields = 1
    /\ result.max_formula_chain_depth = 1

====
